---- MODULE Spec2Model ----
(***************************************************************************)
(* Akili: the canonicalization-and-verification core.                      *)
(*                                                                         *)
(*   verify/proof.py            the proof engine (verify_and_answer)       *)
(*   canonical/models.py        Unit, Bijection, Grid                      *)
(*   ingest/gemini_extract.py   the extraction normalizer, extract_page    *)
(*   ingest/canonicalize.py     the canonicalizer                          *)
(*   ingest/pipeline.py         the ingestion orchestrator                 *)
(*                                                                         *)
(* Text is a sequence of one-character strings, so that lower(), strip(),  *)
(* the `in` substring test and the regular expressions are computed on     *)
(* the characters as the Python code computes them.  A float is an         *)
(* integer number of tenths (33 is 3.3), and a coordinate is one           *)
(* too (5 is 0.5).  An optional, union-typed or untyped Python value is a   *)
(* tagged record: JNull (None), JStr(s), JNum(n) (a float), JInt(i),       *)
(* JList(l), JMap(m) (a dict with fixed field names, as a record),         *)
(* JDict(d) (a dict with data keys, as its items in insertion order).      *)
(***************************************************************************)
EXTENDS Integers, Sequences, FiniteSets, TLC

VARIABLES
  \* a query: the facts of the queried document, the question, the engine's result
  doc_units, doc_bijections, doc_grids, q_question, q_result,
  \* the operation that produced q_result
  q_op,
  \* an earlier query kept for comparison: its arguments and its result
  first_call,
  \* one page on its way from the parsed model response to canonical facts
  pg_pc, pg_raw, pg_index, pg_doc, pg_norm, pg_extraction, pg_facts,
  \* one run of ingest_document
  ing_pc, ing_cfg, ing_pages, ing_i, all_canonical, pages_failed, ing_result,
  \* what the run did so far (sleeps, extractor calls, progress events, store) and
  \* what happened to each page
  ing_trace, ing_outcomes,
  \* one request handled by the API: the request, the response, and the calls the
  \* handler made to its collaborators (store, filesystem, phrasing) in order
  api_request, api_response, api_calls,
  \* one call of extract_page: its position, the configuration, the attempt, and the
  \* calls of the model and the sleeps in order
  rt_pc, rt_cfg, rt_attempt, rt_log,
  \* the thread of /ingest/stream after ingest_document, the terminal message it put,
  \* the number of messages the stream took from the queue, the events it delivered
  st_pc, st_terminal, st_read, st_delivered,
  \* the local variables of each of two concurrent invocations of ingest_document
  invocations

vars == <<doc_units, doc_bijections, doc_grids, q_question, q_result, q_op, first_call,
          pg_pc, pg_raw, pg_index, pg_doc, pg_norm, pg_extraction, pg_facts,
          ing_pc, ing_cfg, ing_pages, ing_i, all_canonical, pages_failed, ing_result,
          ing_trace, ing_outcomes, api_request, api_response, api_calls,
          rt_pc, rt_cfg, rt_attempt, rt_log, st_pc, st_terminal, st_read, st_delivered,
          invocations>>

engine_vars == <<doc_units, doc_bijections, doc_grids, q_question, q_result, q_op,
                 first_call>>
page_vars == <<pg_pc, pg_raw, pg_index, pg_doc, pg_norm, pg_extraction, pg_facts>>
ingest_vars == <<ing_pc, ing_cfg, ing_pages, ing_i, all_canonical, pages_failed, ing_result,
                 ing_trace, ing_outcomes>>
api_vars == <<api_request, api_response, api_calls>>
retry_vars == <<rt_pc, rt_cfg, rt_attempt, rt_log>>
stream_vars == <<st_pc, st_terminal, st_read, st_delivered>>
\* the components outside the proof engine, the page and the run of ingest_document
outer_vars == <<api_vars, retry_vars, stream_vars, invocations>>

\* ------------------------------------------------------------------------
\* Tagged values
\* ------------------------------------------------------------------------
JNull == [t |-> "null"]
JStr(s) == [t |-> "str", s |-> s]
JNum(n) == [t |-> "num", n |-> n]
JInt(i) == [t |-> "int", i |-> i]
\* the floats NaN and Infinity, which json.loads accepts; name is "nan" or "inf"
JNonFinite(name) == [t |-> "nonfinite", name |-> name]
JList(l) == [t |-> "list", l |-> l]
JMap(m) == [t |-> "map", m |-> m]
JDict(d) == [t |-> "dict", d |-> d]
JPoint(x, y) == [t |-> "point", x |-> x, y |-> y]
JBox(x1, y1, x2, y2) == [t |-> "bbox", x1 |-> x1, y1 |-> y1, x2 |-> x2, y2 |-> y2]

\* ------------------------------------------------------------------------
\* Text helpers (Python str methods and the pieces of the regular expressions)
\* ------------------------------------------------------------------------
LowerOf ==
  ("A" :> "a") @@ ("B" :> "b") @@ ("C" :> "c") @@ ("D" :> "d") @@ ("E" :> "e") @@
  ("F" :> "f") @@ ("G" :> "g") @@ ("H" :> "h") @@ ("I" :> "i") @@ ("J" :> "j") @@
  ("K" :> "k") @@ ("L" :> "l") @@ ("M" :> "m") @@ ("N" :> "n") @@ ("O" :> "o") @@
  ("P" :> "p") @@ ("Q" :> "q") @@ ("R" :> "r") @@ ("S" :> "s") @@ ("T" :> "t") @@
  ("U" :> "u") @@ ("V" :> "v") @@ ("W" :> "w") @@ ("X" :> "x") @@ ("Y" :> "y") @@
  ("Z" :> "z")

UpperOf ==
  ("a" :> "A") @@ ("b" :> "B") @@ ("c" :> "C") @@ ("d" :> "D") @@ ("e" :> "E") @@
  ("f" :> "F") @@ ("g" :> "G") @@ ("h" :> "H") @@ ("i" :> "I") @@ ("j" :> "J") @@
  ("k" :> "K") @@ ("l" :> "L") @@ ("m" :> "M") @@ ("n" :> "N") @@ ("o" :> "O") @@
  ("p" :> "P") @@ ("q" :> "Q") @@ ("r" :> "R") @@ ("s" :> "S") @@ ("t" :> "T") @@
  ("u" :> "U") @@ ("v" :> "V") @@ ("w" :> "W") @@ ("x" :> "X") @@ ("y" :> "Y") @@
  ("z" :> "Z")

DigitChars == <<"0", "1", "2", "3", "4", "5", "6", "7", "8", "9">>

IsDigit(c) == \E d \in 1..Len(DigitChars) : DigitChars[d] = c
IsSpace(c) == c \in {" ", "\t", "\n"}
IsLowerAlnumDot(c) == c \in DOMAIN UpperOf \/ IsDigit(c) \/ c = "."
\* \w of the regular expressions (used by \b)
IsWordChar(c) == c \in DOMAIN UpperOf \/ c \in DOMAIN LowerOf \/ IsDigit(c) \/ c = "_"

\* str.lower(), str.upper()
Lower(s) == [i \in 1..Len(s) |-> IF s[i] \in DOMAIN LowerOf THEN LowerOf[s[i]] ELSE s[i]]
Upper(s) == [i \in 1..Len(s) |-> IF s[i] \in DOMAIN UpperOf THEN UpperOf[s[i]] ELSE s[i]]

SetMin(S) == CHOOSE m \in S : \A n \in S : m <= n
SetMax(S) == CHOOSE m \in S : \A n \in S : n <= m

\* str.strip()
Strip(s) ==
  LET ink == {i \in 1..Len(s) : ~IsSpace(s[i])}
  IN IF ink = {} THEN << >> ELSE SubSeq(s, SetMin(ink), SetMax(ink))

\* s[i:].startswith(p), 1-based
StartsAt(s, i, p) ==
  /\ i + Len(p) - 1 <= Len(s)
  /\ \A k \in 1..Len(p) : s[i + k - 1] = p[k]

\* Python's `p in s`
Contains(p, s) == \E i \in 1..(Len(s) - Len(p) + 1) : StartsAt(s, i, p)

\* s.endswith(p)
EndsWith(s, p) == Len(p) <= Len(s) /\ StartsAt(s, Len(s) - Len(p) + 1, p)

\* first index >= i that is not a digit / not white space (Len(s)+1 when there is none)
DigitRunEnd(s, i) ==
  LET stop == {j \in i..Len(s) : ~IsDigit(s[j])}
  IN IF stop = {} THEN Len(s) + 1 ELSE SetMin(stop)

SpaceRunEnd(s, i) ==
  LET stop == {j \in i..Len(s) : ~IsSpace(s[j])}
  IN IF stop = {} THEN Len(s) + 1 ELSE SetMin(stop)

DigitVal(c) == (CHOOSE d \in 1..Len(DigitChars) : DigitChars[d] = c) - 1

RECURSIVE NatStr(_)
\* str(n) of a natural number
NatStr(n) ==
  IF n < 10 THEN <<DigitChars[n + 1]>> ELSE NatStr(n \div 10) \o <<DigitChars[(n % 10) + 1]>>

RECURSIVE NatOf(_)
\* int(s) of a non-empty digit string
NatOf(s) ==
  IF Len(s) = 0 THEN 0 ELSE NatOf(SubSeq(s, 1, Len(s) - 1)) * 10 + DigitVal(s[Len(s)])

\* str(float): 33 (3.3) is "3.3", 50 (5.0) is "5.0"
FloatStr(n) == NatStr(n \div 10) \o <<".">> \o <<DigitChars[(n % 10) + 1]>>

\* float(text) failed (TypeError / ValueError)
NotANumber == -1

\* float(s) of a str: digits, optionally "." and at most one digit (the values of
\* this model carry at most one fractional digit; no sign, exponent, inf or nan)
FloatOf(s0) ==
  LET Parse(s, e) ==
        IF Len(s) = 0 \/ e = 1 THEN NotANumber
        ELSE IF e = Len(s) + 1 THEN NatOf(s) * 10
        ELSE IF s[e] = "." /\ e = Len(s) THEN NatOf(SubSeq(s, 1, e - 1)) * 10
        ELSE IF s[e] = "." /\ e + 1 = Len(s) /\ IsDigit(s[e + 1])
             THEN NatOf(SubSeq(s, 1, e - 1)) * 10 + DigitVal(s[e + 1])
        ELSE NotANumber
      Stripped(s) == Parse(s, DigitRunEnd(s, 1))
  IN Stripped(Strip(s0))

\* str(v) of a `str | float` value
Str(v) == IF v.t = "num" THEN FloatStr(v.n) ELSE v.s

\* float(v) of a `str | float` value
Float(v) == IF v.t = "num" THEN v.n ELSE FloatOf(v.s)

\* truthiness of an optional str (None and "" are falsy)
Truthy(o) == o.t = "str" /\ Len(o.s) > 0

\* `o or ""`
OrEmpty(o) == IF Truthy(o) THEN o.s ELSE << >>

RECURSIVE Flatten(_)
Flatten(ss) == IF Len(ss) = 0 THEN << >> ELSE Head(ss) \o Flatten(Tail(ss))

RECURSIVE JoinSpace(_)
\* " ".join(parts)
JoinSpace(parts) ==
  IF Len(parts) = 0 THEN << >>
  ELSE IF Len(parts) = 1 THEN parts[1]
  ELSE parts[1] \o <<" ">> \o JoinSpace(Tail(parts))

\* ------------------------------------------------------------------------
\* verify/models.py
\* ------------------------------------------------------------------------
ProofPoint(x, y, page, bbox, source_id, source_type) ==
  [x |-> x, y |-> y, page |-> page, bbox |-> bbox,
   source_id |-> source_id, source_type |-> source_type]

AnswerWithProof(answer, proof, source_id, source_type) ==
  [status |-> "answer", answer |-> answer, proof |-> proof,
   source_id |-> source_id, source_type |-> source_type]

Refuse(reason) == [status |-> "refuse", reason |-> reason]

\* ------------------------------------------------------------------------
\* canonical/models.py
\* ------------------------------------------------------------------------
\* Bijection.mapping is a dict: a sequence of (k, v) items in insertion order, keys distinct
get_right(b, left) ==
  LET hit == {i \in 1..Len(b.mapping) : b.mapping[i].k = left}
  IN IF hit = {} THEN JNull ELSE JStr(b.mapping[SetMin(hit)].v)

\* a get_left that looks the string up among the keys
get_left_uninverted(b, right) ==
  LET hit == {i \in 1..Len(b.mapping) : b.mapping[i].k = right}
  IN IF hit = {} THEN JNull ELSE JStr(b.mapping[SetMin(hit)].v)

\* inv = {v: k for k, v in mapping.items()}: a later item overwrites an earlier one
get_left(b, right) ==
  LET hit == {i \in 1..Len(b.mapping) : b.mapping[i].v = right}
  IN IF hit = {} THEN JNull ELSE JStr(b.mapping[SetMax(hit)].k)

\* Grid.get_cell: the first cell of the list at (row, col), or None
get_cell(g, row, col) ==
  LET hit == {i \in 1..Len(g.cells) : g.cells[i].row = row /\ g.cells[i].col = col}
  IN IF hit = {} THEN JNull ELSE g.cells[SetMin(hit)]

\* ------------------------------------------------------------------------
\* verify/proof.py
\* ------------------------------------------------------------------------
\* ProofPointBBox(...) if fact.bbox else None
proof_bbox(bbox) == bbox

\* re.search(r"pin\s+(?:number\s+)?(\d+)", s) anchored at i: group(1), or "" (no match)
PinMatchAt(s, i) ==
  IF ~StartsAt(s, i, <<"p","i","n">>) THEN << >>
  ELSE LET j == SpaceRunEnd(s, i + 3)
       IN IF j = i + 3 THEN << >>
          ELSE LET k == IF StartsAt(s, j, <<"n","u","m","b","e","r">>) THEN SpaceRunEnd(s, j + 6) ELSE 0
                   viaNumber == k > j + 6 /\ k <= Len(s) /\ IsDigit(s[k])
                   d == IF viaNumber THEN k ELSE j
               IN SubSeq(s, d, DigitRunEnd(s, d) - 1)

\* the leftmost match of the pin pattern: group(1), or "" when the pattern does not match
PinSearch(s) ==
  LET at == {i \in 1..Len(s) : PinMatchAt(s, i) # << >>}
  IN IF at = {} THEN << >> ELSE PinMatchAt(s, SetMin(at))

\* (\d+(?:\.\d+)?)\s*(?:w1|w2|..)\b anchored at i, on lower-cased text (re.IGNORECASE):
\* [ok, numEnd, wordStart, end], the number is s[i..numEnd-1], the match s[i..end-1]
QtyMatchAt(s, i, words) ==
  LET miss == [ok |-> FALSE, numEnd |-> 0, wordStart |-> 0, end |-> 0]
  IN IF i > Len(s) \/ ~IsDigit(s[i]) THEN miss
     ELSE
       LET Fit(j) == {w \in 1..Len(words) :
                        /\ StartsAt(s, j, words[w])
                        /\ (j + Len(words[w]) > Len(s)
                            \/ ~IsWordChar(s[j + Len(words[w])]))}
           Word(e, j, fit) ==
             IF fit = {} THEN miss
             ELSE [ok |-> TRUE, numEnd |-> e, wordStart |-> j,
                   end |-> j + Len(words[SetMin(fit)])]
           WordFrom(e, j) == Word(e, j, Fit(j))
           WordAt(e) == WordFrom(e, SpaceRunEnd(s, e))
           \* the fraction is tried first; without it the integer part alone is the number
           Prefer(withFrac, withoutFrac) == IF withFrac.ok THEN withFrac ELSE withoutFrac
           Number(e1) ==
             IF e1 + 1 <= Len(s) /\ s[e1] = "." /\ IsDigit(s[e1 + 1])
             THEN Prefer(WordAt(DigitRunEnd(s, e1 + 1)), WordAt(e1))
             ELSE WordAt(e1)
       IN Number(DigitRunEnd(s, i))

RECURSIVE QtyFindIter(_, _, _)
\* pattern.finditer(text): the non-overlapping matches, left to right
QtyFindIter(s, i, words) ==
  IF i > Len(s) THEN << >>
  ELSE LET Step(m) ==
             IF m.ok THEN <<[start |-> i, numEnd |-> m.numEnd, wordStart |-> m.wordStart,
                             end |-> m.end]>> \o QtyFindIter(s, m.end, words)
             ELSE QtyFindIter(s, i + 1, words)
       IN Step(QtyMatchAt(s, i, words))

\* float(m.group(1)) of a match
MatchFloat(text, m) == FloatOf(SubSeq(text, m.start, m.numEnd - 1))

\* m.group(0).split()[-1]: the last white-space separated piece of the match
MatchLastToken(text, m) ==
  IF m.wordStart > m.numEnd THEN SubSeq(text, m.wordStart, m.end - 1)
  ELSE SubSeq(text, m.start, m.end - 1)

VoltageWords == <<<<"v">>, <<"v","o","l","t">>, <<"v","o","l","t","s">>>>
CurrentWords == <<<<"mu", "a">>, <<"m","a">>, <<"a">>>>
CapacityWords == <<<<"m","a","h">>, <<"a","h">>, <<"w","h">>>>

\* [(numeric_value, unit_str), ...] for voltages found in text
_parse_voltage_from_text(text) ==
  LET Results(ms) == [k \in 1..Len(ms) |-> [val |-> MatchFloat(text, ms[k]), uom |-> <<"V">>]]
  IN Results(QtyFindIter(Lower(text), 1, VoltageWords))

_parse_current_from_text(text) ==
  LET Normalized(unit) ==
        IF Contains(<<"mu">>, unit) \/ Contains(<<"u">>, Lower(unit)) THEN <<"mu", "A">>
        ELSE IF Contains(<<"m">>, Lower(unit)) THEN <<"m","A">>
        ELSE <<"A">>
      UnitOf(m) == Normalized(MatchLastToken(text, m))
      Results(ms) ==
        [k \in 1..Len(ms) |-> [val |-> MatchFloat(text, ms[k]), uom |-> UnitOf(ms[k])]]
  IN Results(QtyFindIter(Lower(text), 1, CurrentWords))

_parse_capacity_from_text(text) ==
  LET Results(ms) == [k \in 1..Len(ms) |-> [val |-> MatchFloat(text, ms[k]),
                                            uom |-> MatchLastToken(text, ms[k])]]
  IN Results(QtyFindIter(Lower(text), 1, CapacityWords))

\* Concatenate value, label, and context
_get_unit_text(u) ==
  JoinSpace(SelectSeq(<<Str(u.value), OrEmpty(u.label), OrEmpty(u.context)>>,
                      LAMBDA p : Len(p) > 0))

\* a unit answer without proof
UnitProof_none(u) == << >>

UnitProof(u) ==
  <<ProofPoint(u.origin.x, u.origin.y, u.page, proof_bbox(u.bbox), u.id, "unit")>>

BijectionAnswer(b, answer) ==
  AnswerWithProof(answer,
                  <<ProofPoint(b.origin.x, b.origin.y, b.page, proof_bbox(b.bbox), b.id,
                               "bijection")>>,
                  b.id, "bijection")

\* the answer of one bijection for pin n, or None
PinFromBijection(b, n) ==
  IF get_right(b, n) # JNull THEN BijectionAnswer(b, get_right(b, n).s)
  ELSE IF get_left(b, n) # JNull THEN BijectionAnswer(b, get_left(b, n).s)
  ELSE JNull

\* the answer of one grid for pin n, or None: the row-major scan of proof.py 125-146
PinFromGrid(g, n) ==
  LET hits == {rc \in (0..(g.rows - 1)) \X (0..(g.cols - 1)) :
                 /\ get_cell(g, rc[1], rc[2]) # JNull
                 /\ Str(get_cell(g, rc[1], rc[2]).value) = n}
  IN IF hits = {} THEN JNull
     ELSE
       LET rc == CHOOSE h \in hits :
                   \A o \in hits : h[1] < o[1] \/ (h[1] = o[1] /\ h[2] <= o[2])
           row == rc[1]
           col == rc[2]
           cell == get_cell(g, row, col)
           ox == IF cell.origin # JNull THEN cell.origin.x ELSE g.origin.x
           oy == IF cell.origin # JNull THEN cell.origin.y ELSE g.origin.y
           next_cell == IF col + 1 < g.cols THEN get_cell(g, row, col + 1) ELSE JNull
           name_cell == IF next_cell = JNull /\ col > 0
                        THEN get_cell(g, row, col - 1) ELSE next_cell
           answer_val == IF name_cell # JNull THEN Str(name_cell.value)
                         ELSE Str(cell.value)
       IN AnswerWithProof(answer_val,
                          <<ProofPoint(ox, oy, g.page, proof_bbox(g.bbox), g.id, "grid")>>,
                          g.id, "grid")

\* only the first element counts
FirstAnswer_head(rs) == IF Len(rs) = 0 THEN JNull ELSE rs[1]

\* the first element of a sequence of optional answers that is not None, or None
FirstAnswer(rs) ==
  LET some == {i \in 1..Len(rs) : rs[i] # JNull}
  IN IF some = {} THEN JNull ELSE rs[SetMin(some)]

\* grids scanned before bijections
_try_pin_lookup_grids_first(question, bijections, grids) ==
  LET question_lower == Strip(Lower(question))
      n == PinSearch(question_lower)
  IN IF n = << >> THEN JNull
     ELSE FirstAnswer([i \in 1..Len(grids) |-> PinFromGrid(grids[i], n)]
                      \o [i \in 1..Len(bijections) |-> PinFromBijection(bijections[i], n)])

_try_pin_lookup(question, bijections, grids) ==
  LET question_lower == Strip(Lower(question))
      n == PinSearch(question_lower)
  IN IF n = << >> THEN JNull
     ELSE FirstAnswer([i \in 1..Len(bijections) |-> PinFromBijection(bijections[i], n)]
                      \o [i \in 1..Len(grids) |-> PinFromGrid(grids[i], n)])

\* max(numeric, key=lambda x: x[0]): the first element with the greatest value
MaxByVal(numeric) ==
  numeric[CHOOSE i \in 1..Len(numeric) :
            /\ \A j \in 1..Len(numeric) : numeric[j].val <= numeric[i].val
            /\ \A j \in 1..(i - 1) : numeric[j].val < numeric[i].val]

UomIn(u, names) == Truthy(u.unit_of_measure) /\ Upper(u.unit_of_measure.s) \in names

VoltageUoms == {<<"V">>, <<"V","O","L","T">>, <<"V","O","L","T","S">>}
\* "µA".upper() is "ΜA" (capital mu), so the third name is never equal to an upper-cased uom
CurrentUoms == {<<"A">>, <<"M","A">>, <<"mu", "A">>}
CapacityUoms == {<<"M","A","H">>, <<"A","H">>, <<"W","H">>}

\* f"{value} {unit_of_measure or ''}".strip()
ValueWithUom(u) == Strip(Str(u.value) \o <<" ">> \o OrEmpty(u.unit_of_measure))

_try_voltage_max(question, units) ==
  LET question_lower == Lower(question)
  IN IF ~Contains(<<"m","a","x">>, question_lower) /\ ~Contains(<<"m","a","x","i","m","u","m">>, question_lower) THEN JNull
     ELSE IF /\ ~Contains(<<"v","o","l","t","a","g","e">>, question_lower)
             /\ ~Contains(<<"v"," ">>, question_lower)
             /\ ~Contains(<<" ","v">>, question_lower) THEN JNull
     ELSE
       LET voltage_units == SelectSeq(units, LAMBDA u : UomIn(u, VoltageUoms))
           structured == SelectSeq([i \in 1..Len(voltage_units) |->
                                      [val |-> Float(voltage_units[i].value),
                                       u |-> voltage_units[i]]],
                                   LAMBDA c : c.val # NotANumber)
           Tagged(u, ps) == [k \in 1..Len(ps) |-> [val |-> ps[k].val, u |-> u]]
           parsed == Flatten([i \in 1..Len(units) |->
                       Tagged(units[i], _parse_voltage_from_text(_get_unit_text(units[i])))])
           numeric == IF Len(structured) > 0 THEN structured ELSE parsed
           Checked(answer_str, fallback) ==
             IF EndsWith(Strip(answer_str), <<"V">>) THEN answer_str ELSE fallback
           Answer(max_u, fallback) ==
             AnswerWithProof(Checked(IF Truthy(max_u.unit_of_measure) THEN ValueWithUom(max_u)
                                     ELSE fallback,
                                     fallback),
                             UnitProof(max_u), max_u.id, "unit")
           Best(best) == Answer(best.u, FloatStr(best.val) \o <<" ","V">>)
           Of(candidates) == IF Len(candidates) = 0 THEN JNull ELSE Best(MaxByVal(candidates))
       IN Of(numeric)

_try_max_current(question, units) ==
  LET question_lower == Lower(question)
  IN IF ~Contains(<<"m","a","x">>, question_lower) /\ ~Contains(<<"m","a","x","i","m","u","m">>, question_lower) THEN JNull
     ELSE IF /\ ~Contains(<<"c","u","r","r","e","n","t">>, question_lower)
             /\ ~Contains(<<" ","a"," ">>, question_lower)
             /\ ~Contains(<<" ","a","m","p","e","r">>, question_lower) THEN JNull
     ELSE
       LET Structured(u, v) ==
             IF v # NotANumber
             THEN <<[val |-> v, u |-> u, uom |-> u.unit_of_measure.s]>> ELSE << >>
           Parsed(u, ps) ==
             [k \in 1..Len(ps) |-> [val |-> ps[k].val, u |-> u, uom |-> ps[k].uom]]
           PerUnit(u) ==
             Structured(u, IF UomIn(u, CurrentUoms) THEN Float(u.value) ELSE NotANumber)
             \o Parsed(u, _parse_current_from_text(_get_unit_text(u)))
           numeric == Flatten([i \in 1..Len(units) |-> PerUnit(units[i])])
           Best(best) ==
             AnswerWithProof(Strip(FloatStr(best.val) \o <<" ">> \o best.uom),
                             UnitProof(best.u), best.u.id, "unit")
           Of(candidates) == IF Len(candidates) = 0 THEN JNull ELSE Best(MaxByVal(candidates))
       IN Of(numeric)

_try_max_capacity(question, units) ==
  LET question_lower == Lower(question)
  IN IF /\ ~Contains(<<"m","a","x">>, question_lower)
        /\ ~Contains(<<"m","a","x","i","m","u","m">>, question_lower)
        /\ ~Contains(<<"n","o","m","i","n","a","l">>, question_lower) THEN JNull
     ELSE IF /\ ~Contains(<<"c","a","p","a","c","i","t","y">>, question_lower)
             /\ ~Contains(<<"m","a","h">>, question_lower)
             /\ ~Contains(<<" ","a","h"," ">>, question_lower)
             /\ ~Contains(<<" ","w","h"," ">>, question_lower) THEN JNull
     ELSE
       LET Parsed(u, ps) ==
             [k \in 1..Len(ps) |-> [val |-> ps[k].val, u |-> u, uom |-> ps[k].uom]]
           Structured(u, v) ==
             IF v # NotANumber
             THEN <<[val |-> v, u |-> u, uom |-> u.unit_of_measure.s]>> ELSE << >>
           PerUnit(u) ==
             Parsed(u, _parse_capacity_from_text(_get_unit_text(u)))
             \o Structured(u, IF UomIn(u, CapacityUoms) THEN Float(u.value) ELSE NotANumber)
           numeric == Flatten([i \in 1..Len(units) |-> PerUnit(units[i])])
           Best(best) ==
             AnswerWithProof(Strip(FloatStr(best.val) \o <<" ">> \o best.uom),
                             UnitProof(best.u), best.u.id, "unit")
           Of(candidates) == IF Len(candidates) = 0 THEN JNull ELSE Best(MaxByVal(candidates))
       IN Of(numeric)

RECURSIVE FindAllWords(_, _)
\* re.findall(r"[a-z0-9.]+", s), from index i
FindAllWords(s, i) ==
  IF i > Len(s) THEN << >>
  ELSE IF ~IsLowerAlnumDot(s[i]) THEN FindAllWords(s, i + 1)
  ELSE LET stop == {j \in i..Len(s) : ~IsLowerAlnumDot(s[j])}
           e == IF stop = {} THEN Len(s) + 1 ELSE SetMin(stop)
       IN <<SubSeq(s, i, e - 1)>> \o FindAllWords(s, e)

StopWords == {<<"w","h","a","t">>, <<"i","s">>, <<"t","h","e">>, <<"o","f">>, <<"t","h","i","s">>, <<"d","o","c","u","m","e","n","t">>}

ContainsAny(ps, s) == \E k \in 1..Len(ps) : Contains(ps[k], s)

\* the quantity classes the question asks for (lines 284-286)
wants_voltage(question_lower) ==
  ContainsAny(<<<<"v","o","l","t","a","g","e">>, <<"v","o","l","t">>, <<" ","v"," ">>, <<"c","h","a","r","g","e"," ","v","o","l","t","a","g","e">>, <<"c","u","t","o","f","f"," ","v","o","l","t","a","g","e">>,
                <<"c","u","t","-","o","f","f"," ","v","o","l","t","a","g","e">>, <<"m","a","x"," ","v","o","l","t","a","g","e">>>>, question_lower)
wants_current(question_lower) ==
  ContainsAny(<<<<"c","u","r","r","e","n","t">>, <<" ","a","m","p","e","r">>, <<" ","a"," ">>, <<"d","i","s","c","h","a","r","g","e"," ","c","u","r","r","e","n","t">>, <<"c","h","a","r","g","e"," ","c","u","r","r","e","n","t">>>>,
              question_lower)
wants_capacity(question_lower) ==
  ContainsAny(<<<<"c","a","p","a","c","i","t","y">>, <<"m","a","h">>, <<" ","a","h"," ">>, <<" ","w","h"," ">>, <<"n","o","m","i","n","a","l"," ","c","a","p","a","c","i","t","y">>>>,
              question_lower)

\* the words of the question without the stop words (lines 295-301)
question_words(question_lower) ==
  LET Of(found) == {found[k] : k \in 1..Len(found)} \ StopWords
  IN Of(FindAllWords(question_lower, 1))

\* sum(1 for w in question_words if len(w) > 1 and w in text_lower)
keyword_overlap(words, text_lower) ==
  Cardinality({w \in words : Len(w) > 1 /\ Contains(w, text_lower)})

_try_unit_by_intent(question, units) ==
  LET question_lower == Strip(Lower(question))
      words == question_words(question_lower)
      Overlap(text_lower) == keyword_overlap(words, text_lower)
      Structured(u, overlap, names) ==
        IF UomIn(u, names) /\ Float(u.value) # NotANumber
        THEN <<[score |-> overlap + 10, answer |-> ValueWithUom(u), u |-> u]>>
        ELSE << >>
      Parsed(u, overlap, ps) ==
        [k \in 1..Len(ps) |->
           [score |-> overlap + 5,
            answer |-> FloatStr(ps[k].val) \o <<" ">> \o ps[k].uom, u |-> u]]
      Scored(u, text, overlap) ==
        (IF wants_voltage(question_lower)
         THEN Structured(u, overlap, VoltageUoms)
              \o Parsed(u, overlap, _parse_voltage_from_text(text)) ELSE << >>)
        \o (IF wants_current(question_lower)
            THEN Structured(u, overlap, CurrentUoms)
                 \o Parsed(u, overlap, _parse_current_from_text(text)) ELSE << >>)
        \o (IF wants_capacity(question_lower)
            THEN Structured(u, overlap, CapacityUoms)
                 \o Parsed(u, overlap, _parse_capacity_from_text(text)) ELSE << >>)
      WithText(u, text) == Scored(u, text, Overlap(Lower(text)))
      PerUnit(u) == WithText(u, _get_unit_text(u))
      \* key=lambda x: (x[0], x[2].origin.y, x[2].origin.x), compared as tuples
      KeyLeq(a, b) ==
        \/ a.score < b.score
        \/ a.score = b.score /\ a.u.origin.y < b.u.origin.y
        \/ a.score = b.score /\ a.u.origin.y = b.u.origin.y /\ a.u.origin.x <= b.u.origin.x
      \* max(candidates, key=...): the first of the candidates with the largest key
      Max(candidates) ==
        candidates[CHOOSE i \in 1..Len(candidates) :
                     /\ \A j \in 1..Len(candidates) : KeyLeq(candidates[j], candidates[i])
                     /\ \A j \in 1..(i - 1) : ~KeyLeq(candidates[i], candidates[j])]
      Best(best) == AnswerWithProof(best.answer, UnitProof(best.u), best.u.id, "unit")
      Of(candidates) == IF Len(candidates) = 0 THEN JNull ELSE Best(Max(candidates))
  IN Of(Flatten([i \in 1..Len(units) |-> PerUnit(units[i])]))

\* the answer of one unit in the literal lookup, or None
UnitLookupOne(u, question_lower) ==
  IF \/ Truthy(u.label) /\ Contains(Lower(u.label.s), question_lower)
     \/ Contains(Lower(Str(u.value)), question_lower)
  THEN AnswerWithProof(ValueWithUom(u), UnitProof(u), u.id, "unit")
  ELSE JNull

_try_unit_lookup(question, units) ==
  LET question_lower == Lower(question)
  IN FirstAnswer([i \in 1..Len(units) |-> UnitLookupOne(units[i], question_lower)])

RefuseReason == <<"N","o"," ","c","a","n","o","n","i","c","a","l"," ","f","a","c","t"," ","d","e","r","i","v","e","s"," ","t","h","i","s"," ","a","n","s","w","e","r",".">>

\* maximum voltage tried before pin lookup
Matchers_voltage_first(question, units, bijections, grids) ==
  <<_try_voltage_max(question, units),
    _try_pin_lookup(question, bijections, grids),
    _try_max_current(question, units),
    _try_max_capacity(question, units),
    _try_unit_by_intent(question, units),
    _try_unit_lookup(question, units)>>

\* the six matchers in the order verify_and_answer tries them
Matchers(question, units, bijections, grids) ==
  <<_try_pin_lookup(question, bijections, grids),
    _try_voltage_max(question, units),
    _try_max_current(question, units),
    _try_max_capacity(question, units),
    _try_unit_by_intent(question, units),
    _try_unit_lookup(question, units)>>

\* a verify_and_answer that keeps the last result and returns it for the same question
verify_and_answer_cached(question, units, bijections, grids) ==
  IF q_result # JNull /\ q_question = question THEN q_result
  ELSE LET result == FirstAnswer(Matchers(question, units, bijections, grids))
       IN IF result # JNull THEN result ELSE Refuse(RefuseReason)

verify_and_answer(question, units, bijections, grids) ==
  LET result == FirstAnswer(Matchers(question, units, bijections, grids))
  IN IF result # JNull THEN result ELSE Refuse(RefuseReason)


\* ------------------------------------------------------------------------
\* ingest/gemini_extract.py: the extraction normalizer
\* ------------------------------------------------------------------------
\* d.get(k) of a parsed JSON object (None when absent)
Get(j, k) == IF j.t = "map" /\ k \in DOMAIN j.m THEN j.m[k] ELSE JNull

\* `k in d`
HasKey(j, k) == j.t = "map" /\ k \in DOMAIN j.m

\* bool(v) of a parsed JSON value
PyTrue(j) ==
  CASE j.t = "null" -> FALSE
    [] j.t = "str" -> Len(j.s) > 0
    [] j.t = "int" -> j.i # 0
    [] j.t = "num" -> j.n # 0
    [] j.t = "list" -> Len(j.l) > 0
    [] j.t = "dict" -> Len(j.d) > 0
    [] j.t = "map" -> DOMAIN j.m # {}
    [] OTHER -> TRUE

\* `a or b or c`
Or3(a, b, c) == IF PyTrue(a) THEN a ELSE IF PyTrue(b) THEN b ELSE c

\* isinstance(v, (int, float))
IsNumber(j) == j.t \in {"int", "num", "nonfinite"}

\* float(v): tenths, or NotANumber for the TypeError / ValueError (the pools hold
\* non-finite numbers only where int() is applied)
ToFloat(j) ==
  CASE j.t = "int" -> j.i * 10
    [] j.t = "num" -> j.n
    [] j.t = "str" -> FloatOf(j.s)
    [] OTHER -> NotANumber

\* str(v) of a scalar (the pools hold no list or dict where str() is applied)
PyStr(j) ==
  CASE j.t = "str" -> j.s
    [] j.t = "int" -> NatStr(j.i)
    [] j.t = "num" -> FloatStr(j.n)
    [] OTHER -> <<"N","o","n","e">>

\* isinstance(v, str) and v.strip() != ""
IsNonBlankStr(j) == j.t = "str" /\ Len(Strip(j.s)) > 0

\* Return {x, y} dict with numeric x,y; accept dict or [x,y] list
_normalize_origin(origin) ==
  IF origin.t = "map"
  THEN IF IsNumber(Get(origin, "x")) /\ IsNumber(Get(origin, "y"))
       THEN JPoint(ToFloat(Get(origin, "x")), ToFloat(Get(origin, "y")))
       ELSE JNull
  ELSE IF origin.t = "list" /\ Len(origin.l) >= 2
  THEN IF ToFloat(origin.l[1]) # NotANumber /\ ToFloat(origin.l[2]) # NotANumber
       THEN JPoint(ToFloat(origin.l[1]), ToFloat(origin.l[2]))
       ELSE JNull
  ELSE JNull

\* Return {x1, y1, x2, y2} dict; accept dict or [x1,y1,x2,y2] list
_normalize_bbox(bbox) ==
  IF bbox.t = "map"
  THEN IF \A k \in {"x1", "y1", "x2", "y2"} : IsNumber(Get(bbox, k))
       THEN JBox(ToFloat(Get(bbox, "x1")), ToFloat(Get(bbox, "y1")),
                 ToFloat(Get(bbox, "x2")), ToFloat(Get(bbox, "y2")))
       ELSE JNull
  ELSE IF bbox.t = "list" /\ Len(bbox.l) >= 4
  THEN IF \A k \in 1..4 : ToFloat(bbox.l[k]) # NotANumber
       THEN JBox(ToFloat(bbox.l[1]), ToFloat(bbox.l[2]), ToFloat(bbox.l[3]),
                 ToFloat(bbox.l[4]))
       ELSE JNull
  ELSE JNull

\* f"p{page_index}_"
PagePrefix(page_index) == <<"p">> \o NatStr(page_index) \o <<"_">>

\* the provided id when it is a non-blank str, else f"{page_prefix}{letter}{index}"
EntryId(item, page_prefix, letter, index) ==
  IF IsNonBlankStr(Get(item, "id")) THEN Get(item, "id")
  ELSE JStr(page_prefix \o letter \o NatStr(index))

\* the origin a grid is given when its own origin does not normalize (lines 188-189, 200-201)
grid_default_origin(origin) == IF origin = JNull THEN JPoint(0, 0) ELSE origin

\* one entry of units_raw (lines 254-281): the kept dict, or None when dropped
_normalize_unit_item(u, page_prefix, i) ==
  IF u.t # "map" THEN JNull
  ELSE IF _normalize_origin(Get(u, "origin")) = JNull THEN JNull
  ELSE
    LET val0 == Get(u, "value")
        val1 == IF val0 = JNull THEN Or3(Get(u, "text"), Get(u, "label"), Get(u, "content"))
                ELSE val0
        val == IF val1 = JNull THEN JStr(<< >>) ELSE val1
        uom == Get(u, "unit_of_measure")
    IN [id |-> EntryId(u, page_prefix, <<"u">>, i),
        label |-> IF Get(u, "label").t = "str" THEN Get(u, "label") ELSE JNull,
        value |-> val,
        unit_of_measure |-> IF uom.t = "str" THEN uom ELSE JNull,
        origin |-> _normalize_origin(Get(u, "origin")),
        bbox |-> _normalize_bbox(Get(u, "bbox"))]

_normalize_bijection_item(item, page_prefix, index) ==
  IF item.t # "map" THEN JNull
  ELSE IF _normalize_origin(Get(item, "origin")) = JNull THEN JNull
  ELSE
    LET pair == Get(item, "pair")
        Single(l, r) == [left_set |-> JList(<<JStr(l)>>), right_set |-> JList(<<JStr(r)>>),
                         mapping |-> JDict(<<[k |-> l, v |-> JStr(r)]>>)]
        shape == IF pair.t = "list" /\ Len(pair.l) >= 2
                 THEN Single(PyStr(pair.l[1]), PyStr(pair.l[2]))
                 ELSE IF HasKey(item, "key") /\ HasKey(item, "value")
                 THEN Single(PyStr(Get(item, "key")), PyStr(Get(item, "value")))
                 ELSE IF \/ Get(item, "left_set").t # "list"
                         \/ Get(item, "right_set").t # "list"
                         \/ Get(item, "mapping").t # "dict"
                 THEN JNull
                 ELSE [left_set |-> Get(item, "left_set"),
                       right_set |-> Get(item, "right_set"),
                       mapping |-> Get(item, "mapping")]
    IN IF shape = JNull THEN JNull
       ELSE [id |-> EntryId(item, page_prefix, <<"b">>, index),
             left_set |-> shape.left_set,
             right_set |-> shape.right_set,
             mapping |-> shape.mapping,
             origin |-> _normalize_origin(Get(item, "origin")),
             bbox |-> _normalize_bbox(Get(item, "bbox"))]

\* value of a cell dict: value or text or content, "" when None
CellValue(c) ==
  LET val == Or3(Get(c, "value"), Get(c, "text"), Get(c, "content"))
  IN IF val = JNull THEN JStr(<< >>) ELSE val

\* int(v) failed with OverflowError
Overflows == -2

\* an exception that leaves the normalizer
Raised(error) == [t |-> "raised", error |-> error]

\* int(v) of a str or number: NotANumber for the TypeError / ValueError (int(nan) is a
\* ValueError), Overflows for the OverflowError of int(inf)
ToInt(j) ==
  CASE j.t = "int" -> j.i
    [] j.t = "num" -> j.n \div 10
    [] j.t = "nonfinite" -> IF j.name = "nan" THEN NotANumber ELSE Overflows
    [] j.t = "str" -> IF Len(Strip(j.s)) > 0 /\ DigitRunEnd(Strip(j.s), 1) = Len(Strip(j.s)) + 1
                      THEN NatOf(Strip(j.s)) ELSE NotANumber
    [] OTHER -> NotANumber

\* the cells of one row object of the rows-as-list shape (lines 164-184)
RowCells(row, ri) ==
  IF row.t # "map" THEN << >>
  ELSE LET alt == IF PyTrue(Get(row, "cells")) THEN Get(row, "cells")
                  ELSE IF PyTrue(Get(row, "cell")) THEN Get(row, "cell")
                  ELSE JList(<< >>)
       IN IF alt.t # "list" THEN << >>
          ELSE [ci \in 1..Len(alt.l) |->
                  IF alt.l[ci].t = "map"
                  THEN [row |-> JInt(ri), col |-> JInt(ci - 1), value |-> CellValue(alt.l[ci]),
                        origin |-> _normalize_origin(Get(alt.l[ci], "origin"))]
                  ELSE [row |-> JInt(ri), col |-> JInt(ci - 1),
                        value |-> JStr(PyStr(alt.l[ci])), origin |-> JNull]]

\* the cell of one entry of cells_raw (lines 205-226), or None when skipped
NormalizeCell(c) ==
  IF c.t # "map" THEN JNull
  ELSE IF Get(c, "row") = JNull \/ Get(c, "col") = JNull THEN JNull
  \* ro, co = int(ro), int(co) under `except (TypeError, ValueError): continue`
  ELSE IF ToInt(Get(c, "row")) = NotANumber THEN JNull
  ELSE IF ToInt(Get(c, "row")) = Overflows THEN Raised("OverflowError")
  ELSE IF ToInt(Get(c, "col")) = NotANumber THEN JNull
  ELSE IF ToInt(Get(c, "col")) = Overflows THEN Raised("OverflowError")
  ELSE IF ToInt(Get(c, "row")) < 0 \/ ToInt(Get(c, "col")) < 0 THEN JNull
  ELSE [row |-> JInt(ToInt(Get(c, "row"))), col |-> JInt(ToInt(Get(c, "col"))),
        value |-> CellValue(c), origin |-> _normalize_origin(Get(c, "origin"))]

_normalize_grid_item(item, page_prefix, index) ==
  IF item.t # "map" THEN JNull
  ELSE
    LET gid == EntryId(item, page_prefix, <<"g">>, index)
        origin == _normalize_origin(Get(item, "origin"))
        bbox == _normalize_bbox(Get(item, "bbox"))
        rows_raw == Get(item, "rows")
        cols_raw == Get(item, "cols")
        cells_raw == Get(item, "cells")
    IN IF rows_raw.t = "list" /\ Len(rows_raw.l) > 0 /\ ~IsNumber(rows_raw.l[1])
       THEN
         LET RowLen(row) ==
               IF row.t # "map" THEN 0
               ELSE LET alt == IF PyTrue(Get(row, "cells")) THEN Get(row, "cells")
                               ELSE IF PyTrue(Get(row, "cell")) THEN Get(row, "cell")
                               ELSE JList(<< >>)
                    IN IF alt.t = "list" THEN Len(alt.l) ELSE 0
             ncols == SetMax({0} \cup {RowLen(rows_raw.l[r]) : r \in 1..Len(rows_raw.l)})
         IN [id |-> gid,
             rows |-> JInt(Len(rows_raw.l)),
             cols |-> JInt(IF ncols < 1 THEN 1 ELSE ncols),
             cells |-> JList(Flatten([r \in 1..Len(rows_raw.l) |->
                                        RowCells(rows_raw.l[r], r - 1)])),
             origin |-> grid_default_origin(origin),
             bbox |-> bbox]
       ELSE IF IsNumber(rows_raw) /\ IsNumber(cols_raw)
       THEN
         LET cells_list == IF cells_raw.t = "list" THEN cells_raw.l ELSE << >>
             Kept(cells) ==
               [id |-> gid,
                rows |-> JInt(ToInt(rows_raw)),
                cols |-> JInt(ToInt(cols_raw)),
                cells |-> JList(SelectSeq(cells, LAMBDA c : c # JNull)),
                origin |-> grid_default_origin(origin),
                bbox |-> bbox]
             \* the loop over cells_raw comes first, then int(rows_raw), int(cols_raw),
             \* none of them under a try
             Built(cells) ==
               IF \E k \in 1..Len(cells) : cells[k] = Raised("OverflowError")
               THEN Raised("OverflowError")
               ELSE IF ToInt(rows_raw) = NotANumber THEN Raised("ValueError")
               ELSE IF ToInt(rows_raw) = Overflows THEN Raised("OverflowError")
               ELSE IF ToInt(cols_raw) = NotANumber THEN Raised("ValueError")
               ELSE IF ToInt(cols_raw) = Overflows THEN Raised("OverflowError")
               ELSE Kept(cells)
         IN Built([k \in 1..Len(cells_list) |-> NormalizeCell(cells_list[k])])
       ELSE JNull

\* [f(item, i) for i, item in enumerate(raw) if f(item, i) is not None], raw a list or not
KeptUnits(raw, page_prefix) ==
  IF raw.t # "list" THEN << >>
  ELSE SelectSeq([k \in 1..Len(raw.l) |-> _normalize_unit_item(raw.l[k], page_prefix, k - 1)],
                 LAMBDA e : e # JNull)

KeptBijections(raw, page_prefix) ==
  IF raw.t # "list" THEN << >>
  ELSE SelectSeq([k \in 1..Len(raw.l) |->
                    _normalize_bijection_item(raw.l[k], page_prefix, k - 1)],
                 LAMBDA e : e # JNull)

IsRaised(e) == e = Raised("ValueError") \/ e = Raised("OverflowError")

\* _normalize_grid_item of every entry of grids_raw, in order
GridItems(raw, page_prefix) ==
  IF raw.t # "list" THEN << >>
  ELSE [k \in 1..Len(raw.l) |-> _normalize_grid_item(raw.l[k], page_prefix, k - 1)]

\* the exception that leaves the list comprehension over grids_raw, or None
GridsError(items) ==
  IF \E k \in 1..Len(items) : IsRaised(items[k])
  THEN items[SetMin({k \in 1..Len(items) : IsRaised(items[k])})]
  ELSE JNull

KeptGrids(items) == SelectSeq(items, LAMBDA e : e # JNull)

\* Normalize Gemini response to match PageExtraction schema (the three lists of the result)
_normalize_extraction(data, page_index) ==
  LET Result(items) ==
        IF GridsError(items) # JNull THEN GridsError(items)
        ELSE [units |-> KeptUnits(Get(data, "units"), PagePrefix(page_index)),
              bijections |-> KeptBijections(Get(data, "bijections"), PagePrefix(page_index)),
              grids |-> KeptGrids(items)]
  IN IF data.t # "map" THEN [units |-> << >>, bijections |-> << >>, grids |-> << >>]
     ELSE Result(GridItems(Get(data, "grids"), PagePrefix(page_index)))

\* ------------------------------------------------------------------------
\* ingest/extract_schema.py: pydantic validation of the normalized dict
\* ------------------------------------------------------------------------
IsStr(j) == j.t = "str"
IsOptStr(j) == j.t \in {"str", "null"}
\* `str | float`: a str, a float, or an int (which becomes a float)
IsStrOrFloat(j) == j.t \in {"str", "num", "int"}
AsStrOrFloat(j) == IF j.t = "int" THEN JNum(j.i * 10) ELSE j
IsNonNegInt(j) == j.t = "int" /\ j.i >= 0
IsPoint(j) == j.t = "point"
IsOptPoint(j) == j.t \in {"point", "null"}
IsOptBox(j) == j.t \in {"bbox", "null"}
IsStrList(j) == j.t = "list" /\ \A k \in 1..Len(j.l) : IsStr(j.l[k])
IsStrDict(j) == j.t = "dict" /\ \A k \in 1..Len(j.d) : IsStr(j.d[k].v)

UnitExtractOk(e) ==
  /\ IsStr(e.id) /\ IsOptStr(e.label) /\ IsStrOrFloat(e.value)
  /\ IsOptStr(e.unit_of_measure) /\ IsPoint(e.origin) /\ IsOptBox(e.bbox)

BijectionExtractOk(e) ==
  /\ IsStr(e.id) /\ IsStrList(e.left_set) /\ IsStrList(e.right_set)
  /\ IsStrDict(e.mapping) /\ IsPoint(e.origin) /\ IsOptBox(e.bbox)

GridCellExtractOk(c) ==
  IsNonNegInt(c.row) /\ IsNonNegInt(c.col) /\ IsStrOrFloat(c.value) /\ IsOptPoint(c.origin)

GridExtractOk(e) ==
  /\ IsStr(e.id) /\ IsNonNegInt(e.rows) /\ IsNonNegInt(e.cols)
  /\ e.cells.t = "list" /\ \A k \in 1..Len(e.cells.l) : GridCellExtractOk(e.cells.l[k])
  /\ IsPoint(e.origin) /\ IsOptBox(e.bbox)

\* the validated models hold the coerced values (an int value is a float)
UnitExtract(e) == [e EXCEPT !.value = AsStrOrFloat(e.value)]
GridExtract(e) ==
  [e EXCEPT !.cells = JList([k \in 1..Len(e.cells.l) |->
                               [e.cells.l[k] EXCEPT !.value = AsStrOrFloat(e.cells.l[k].value)]])]

EmptyExtraction == [units |-> << >>, bijections |-> << >>, grids |-> << >>]

PageExtractionOk(data) ==
  /\ \A k \in 1..Len(data.units) : UnitExtractOk(data.units[k])
  /\ \A k \in 1..Len(data.bijections) : BijectionExtractOk(data.bijections[k])
  /\ \A k \in 1..Len(data.grids) : GridExtractOk(data.grids[k])

\* PageExtraction.model_validate(data); on ValidationError the empty extraction
\* (extract_page, lines 385-395)
model_validate_or_empty(data) ==
  IF PageExtractionOk(data)
  THEN [units |-> [k \in 1..Len(data.units) |-> UnitExtract(data.units[k])],
        bijections |-> data.bijections,
        grids |-> [k \in 1..Len(data.grids) |-> GridExtract(data.grids[k])]]
  ELSE EmptyExtraction

\* the tail of extract_page: json.loads(text) gave data
extract_page_parsed(data, page_index) ==
  LET Validated(norm) == IF IsRaised(norm) THEN norm ELSE model_validate_or_empty(norm)
  IN Validated(_normalize_extraction(data, page_index))

\* ------------------------------------------------------------------------
\* ingest/canonicalize.py
\* ------------------------------------------------------------------------
\* Unit(...) of canonical/models.py validates the fields it is given
UnitOk(e, doc_id, page) == UnitExtractOk(e) /\ page >= 0
BijectionOk(e, doc_id, page) == BijectionExtractOk(e) /\ page >= 0
GridOk(e, doc_id, page) == GridExtractOk(e) /\ page >= 0

MakeUnit(e, doc_id, page) ==
  [kind |-> "unit", id |-> e.id.s, label |-> e.label, value |-> AsStrOrFloat(e.value),
   unit_of_measure |-> e.unit_of_measure, context |-> JNull,
   origin |-> [x |-> e.origin.x, y |-> e.origin.y],
   doc_id |-> doc_id, page |-> page, bbox |-> e.bbox]

MakeBijection(e, doc_id, page) ==
  [kind |-> "bijection", id |-> e.id.s,
   left_set |-> [k \in 1..Len(e.left_set.l) |-> e.left_set.l[k].s],
   right_set |-> [k \in 1..Len(e.right_set.l) |-> e.right_set.l[k].s],
   mapping |-> [k \in 1..Len(e.mapping.d) |-> [k |-> e.mapping.d[k].k, v |-> e.mapping.d[k].v.s]],
   origin |-> [x |-> e.origin.x, y |-> e.origin.y],
   doc_id |-> doc_id, page |-> page, bbox |-> e.bbox]

MakeGrid(e, doc_id, page) ==
  [kind |-> "grid", id |-> e.id.s, rows |-> e.rows.i, cols |-> e.cols.i,
   cells |-> [k \in 1..Len(e.cells.l) |->
                [row |-> e.cells.l[k].row.i, col |-> e.cells.l[k].col.i,
                 value |-> AsStrOrFloat(e.cells.l[k].value), origin |-> e.cells.l[k].origin]],
   origin |-> [x |-> e.origin.x, y |-> e.origin.y],
   doc_id |-> doc_id, page |-> page, bbox |-> e.bbox]

\* one failing candidate loses the whole batch of units
canonicalize_units_all_or_nothing(extracts, doc_id, page) ==
  IF \A k \in 1..Len(extracts) : UnitOk(extracts[k], doc_id, page)
  THEN [k \in 1..Len(extracts) |-> MakeUnit(extracts[k], doc_id, page)]
  ELSE << >>

\* Convert extracted units to canonical Unit; skip invalid
canonicalize_units(extracts, doc_id, page) ==
  LET ok == SelectSeq(extracts, LAMBDA e : UnitOk(e, doc_id, page))
  IN [k \in 1..Len(ok) |-> MakeUnit(ok[k], doc_id, page)]

canonicalize_bijections(extracts, doc_id, page) ==
  LET ok == SelectSeq(extracts, LAMBDA e : BijectionOk(e, doc_id, page))
  IN [k \in 1..Len(ok) |-> MakeBijection(ok[k], doc_id, page)]

canonicalize_grids(extracts, doc_id, page) ==
  LET ok == SelectSeq(extracts, LAMBDA e : GridOk(e, doc_id, page))
  IN [k \in 1..Len(ok) |-> MakeGrid(ok[k], doc_id, page)]

\* Returns a flat list of Unit, Bijection, Grid. Invalid entries are skipped.
canonicalize_page(extraction, doc_id, page) ==
  canonicalize_units(extraction.units, doc_id, page)
  \o canonicalize_bijections(extraction.bijections, doc_id, page)
  \o canonicalize_grids(extraction.grids, doc_id, page)

\* ------------------------------------------------------------------------
\* ingest/pipeline.py: the pieces of ingest_document
\* ------------------------------------------------------------------------
\* AKILI_GEMINI_PAGE_DELAY_SECONDS and AKILI_GEMINI_429_COOLDOWN_SECONDS, the defaults
DefaultPageDelay == 4
DefaultCooldown == 60

\* one entry of the log of what ingest_document did, in the order it did it
Event(ev, phase, page) == [ev |-> ev, phase |-> phase, page |-> page]
NoPage == -1

\* _progress(msg): the observer is called when there is one
progress(observer, phase, page) ==
  IF observer = "none" THEN << >> ELSE <<Event("progress", phase, page)>>

\* the loop taking the pages from the last to the first
page_index_backwards(pages, i) == pages[Len(pages) + 1 - i]

\* for i, (page_index, image_bytes) in enumerate(pages)   (i is 1-based here)
page_index_at(pages, i) == pages[i]

\* a sleep before every page, the first included
page_delay_sleep_every_page(i, page_delay, page) ==
  IF page_delay > 0 THEN <<Event("sleep", "page_delay", page)>> ELSE << >>

\* if i > 0 and _PAGE_DELAY > 0: time.sleep(_PAGE_DELAY)   (i is 1-based here)
page_delay_sleep(i, page_delay, page) ==
  IF i > 1 /\ page_delay > 0 THEN <<Event("sleep", "page_delay", page)>> ELSE << >>

\* if _is_rate_limit_error(e) and _429_COOLDOWN > 0: time.sleep(_429_COOLDOWN)
cooldown_sleep(rate_limited, cooldown, page) ==
  IF rate_limited /\ cooldown > 0 THEN <<Event("sleep", "cooldown", page)>> ELSE << >>

\* all_canonical.extend(canonical)
extend(all, canonical) == all \o canonical

\* a failed page is not counted
count_failed_not(failed) == failed

\* pages_failed += 1
count_failed(failed) == failed + 1

OfKind(all, kind) == SelectSeq(all, LAMBDA o : o.kind = kind)

\* a "done" message counting every fact as a unit
done_message_all_units(doc_id, total_pages, failed, all) ==
  [phase |-> "done", doc_id |-> doc_id, total_pages |-> total_pages,
   pages_failed |-> failed, units_count |-> Len(all), bijections_count |-> 0,
   grids_count |-> 0, extraction_warning |-> (Len(all) = 0),
   extraction_note |-> (Len(all) > 0 /\ failed > 0)]

\* the "done" message built after the pages (lines 118-142)
done_message(doc_id, total_pages, failed, all) ==
  LET nu == Len(OfKind(all, "unit"))
      nb == Len(OfKind(all, "bijection"))
      ng == Len(OfKind(all, "grid"))
  IN [phase |-> "done", doc_id |-> doc_id, total_pages |-> total_pages,
      pages_failed |-> failed, units_count |-> nu, bijections_count |-> nb,
      grids_count |-> ng,
      extraction_warning |-> (nu = 0 /\ nb = 0 /\ ng = 0),
      extraction_note |-> (~(nu = 0 /\ nb = 0 /\ ng = 0) /\ failed > 0)]

\* ------------------------------------------------------------------------
\* Bounds and the values the inputs are drawn from
\* ------------------------------------------------------------------------
\* facts of one document given to the proof engine (units + bijections + grids)
MaxFacts == 2
\* entries of one raw model response (units + bijections + grids)
MaxEntries == 2
\* pages of one PDF
MaxPages == 3

\* sequences over S of length n
SeqsOfLen(S, n) == [1..n -> S]

\* the splits (a, b, c) of at most n items over three lists
Splits(n) == {t \in (0..n) \X (0..n) \X (0..n) : t[1] + t[2] + t[3] <= n}

UnitFact(id, label, value, uom, x, y, page) ==
  [kind |-> "unit", id |-> id, label |-> label, value |-> value, unit_of_measure |-> uom,
   context |-> JNull, origin |-> [x |-> x, y |-> y], doc_id |-> "docA", page |-> page,
   bbox |-> JNull]

BijectionFact(id, items, x, y, page, bbox) ==
  [kind |-> "bijection", id |-> id,
   left_set |-> [k \in 1..Len(items) |-> items[k].k],
   right_set |-> [k \in 1..Len(items) |-> items[k].v],
   mapping |-> items, origin |-> [x |-> x, y |-> y], doc_id |-> "docA", page |-> page,
   bbox |-> bbox]

Cell(row, col, value, origin) == [row |-> row, col |-> col, value |-> value, origin |-> origin]

GridFact(id, rows, cols, cells, x, y, page) ==
  [kind |-> "grid", id |-> id, rows |-> rows, cols |-> cols, cells |-> cells,
   origin |-> [x |-> x, y |-> y], doc_id |-> "docA", page |-> page, bbox |-> JNull]

Item(k, v) == [k |-> k, v |-> v]

UnitPool ==
  { UnitFact(<<"v","1">>, JNull, JNum(33), JStr(<<"V">>), 1, 1, 0),
    UnitFact(<<"v","2">>, JNull, JNum(50), JStr(<<"V">>), 2, 2, 0),
    UnitFact(<<"t","1">>, JStr(<<"S","u","p","p","l","y">>), JStr(<<"1","2","V">>), JNull, 3, 2, 1),
    UnitFact(<<"c","1">>, JStr(<<"C","h","a","r","g","e"," ","c","u","r","r","e","n","t">>), JNum(5000), JStr(<<"m","A">>), 1, 4, 1),
    UnitFact(<<"k","1">>, JStr(<<"N","o","m","i","n","a","l"," ","c","a","p","a","c","i","t","y">>), JStr(<<"2","0","0","0","m","A","h">>), JNull, 2, 6, 1),
    UnitFact(<<"n","1">>, JStr(<<"V","C","C">>), JStr(<<"3",".","3">>), JNull, 4, 4, 0),
    \* the normalizer's default value "" for a unit without value
    UnitFact(<<"p","2","_","u","0">>, JNull, JStr(<< >>), JNull, 5, 5, 2) }

BijectionPool ==
  { BijectionFact(<<"p","i","n","o","u","t">>, <<Item(<<"5">>, <<"V","C","C">>), Item(<<"6">>, <<"G","N","D">>)>>, 5, 3, 0, JNull),
    BijectionFact(<<"b","2">>, <<Item(<<"V","D","D">>, <<"5">>), Item(<<"V","S","S">>, <<"6">>)>>, 6, 3, 1, JNull),
    BijectionFact(<<"b","3">>, <<Item(<<"A">>, <<"5">>), Item(<<"B">>, <<"5">>)>>, 6, 5, 1, JNull),
    BijectionFact(<<"b","4">>, <<Item(<<"7">>, <<"N","C">>)>>, 7, 7, 2, JBox(6, 6, 8, 8)) }

GridPool ==
  { \* the pinout table of tests/test_verify.py
    GridFact(<<"p","i","n","o","u","t">>, 3, 2,
             <<Cell(0, 0, JStr(<<"P","i","n">>), JPoint(1, 1)), Cell(0, 1, JStr(<<"N","a","m","e">>), JPoint(5, 1)),
               Cell(1, 0, JStr(<<"5">>), JPoint(1, 2)), Cell(1, 1, JStr(<<"V","C","C">>), JPoint(5, 2)),
               Cell(2, 0, JStr(<<"6">>), JPoint(1, 3)), Cell(2, 1, JStr(<<"G","N","D">>), JPoint(5, 3))>>,
             0, 0, 0),
    \* one column: the pin number has no neighbour
    GridFact(<<"g","2">>, 2, 1,
             <<Cell(0, 0, JStr(<<"P","i","n">>), JNull), Cell(1, 0, JStr(<<"5">>), JNull)>>, 2, 8, 1),
    \* the name is left of the number
    GridFact(<<"g","3">>, 2, 2,
             <<Cell(0, 0, JStr(<<"R","S","T">>), JPoint(1, 1)), Cell(0, 1, JStr(<<"5">>), JPoint(5, 1)),
               Cell(1, 0, JStr(<<"E","N">>), JNull), Cell(1, 1, JStr(<<"6">>), JNull)>>, 3, 3, 1),
    \* sparse, with a numeric cell and a number between two names
    GridFact(<<"g","4">>, 2, 3,
             <<Cell(0, 0, JNum(50), JPoint(1, 1)), Cell(0, 2, JStr(<<"6">>), JPoint(9, 1)),
               Cell(1, 0, JStr(<<"A">>), JPoint(1, 2)), Cell(1, 1, JStr(<<"5">>), JPoint(5, 2)),
               Cell(1, 2, JStr(<<"B">>), JPoint(9, 2))>>,
             4, 4, 2) }

Questions ==
  { <<"W","h","a","t"," ","i","s"," ","p","i","n"," ","5","?">>,
    <<"w","h","a","t"," ","i","s"," ","P","i","n"," ","n","u","m","b","e","r"," ","6","?">>,
    <<"W","h","a","t"," ","i","s"," ","t","h","e"," ","m","a","x","i","m","u","m"," ","v","o","l","t","a","g","e","?">>,
    <<"m","a","x"," ","v","o","l","t","a","g","e"," ","o","f"," ","p","i","n"," ","5">>,
    <<"w","h","a","t"," ","i","s"," ","t","h","e"," ","c","h","a","r","g","e"," ","v","o","l","t","a","g","e","?">>,
    <<"m","a","x","i","m","u","m"," ","c","u","r","r","e","n","t">>,
    <<"W","h","a","t"," ","i","s"," ","V","C","C","?">>,
    <<"n","o","m","i","n","a","l"," ","c","a","p","a","c","i","t","y">>,
    <<"h","e","l","l","o">> }

\* the fact sets of a document: at most MaxFacts facts
Documents ==
  UNION { { [units |-> u, bijections |-> b, grids |-> g] :
              u \in SeqsOfLen(UnitPool, t[1]), b \in SeqsOfLen(BijectionPool, t[2]),
              g \in SeqsOfLen(GridPool, t[3]) } : t \in Splits(MaxFacts) }

\* ------------------------------------------------------------------------
\* The components at rest
\* ------------------------------------------------------------------------
EngineIdle ==
  /\ doc_units = << >> /\ doc_bijections = << >> /\ doc_grids = << >>
  /\ q_question = << >> /\ q_result = JNull /\ q_op = "none" /\ first_call = JNull

PageIdle ==
  /\ pg_pc = "idle" /\ pg_raw = JNull /\ pg_index = 0 /\ pg_doc = "docA"
  /\ pg_norm = JNull /\ pg_extraction = JNull /\ pg_facts = << >>

ApiIdle == api_request = JNull /\ api_response = JNull /\ api_calls = << >>

RetryIdle == rt_pc = "idle" /\ rt_cfg = JNull /\ rt_attempt = 0 /\ rt_log = << >>

StreamIdle == st_pc = "idle" /\ st_terminal = JNull /\ st_read = 0 /\ st_delivered = << >>

OuterIdle == ApiIdle /\ RetryIdle /\ StreamIdle /\ invocations = << >>

IngestIdle ==
  /\ ing_pc = "idle" /\ ing_cfg = JNull /\ ing_pages = << >> /\ ing_i = 0
  /\ all_canonical = << >> /\ pages_failed = 0 /\ ing_result = JNull
  /\ ing_trace = << >> /\ ing_outcomes = << >>

\* ------------------------------------------------------------------------
\* The proof engine called on the facts of one document
\* ------------------------------------------------------------------------
Init ==
  /\ \E d \in Documents :
       doc_units = d.units /\ doc_bijections = d.bijections /\ doc_grids = d.grids
  /\ q_question = << >> /\ q_result = JNull /\ q_op = "none" /\ first_call = JNull
  /\ PageIdle /\ IngestIdle /\ OuterIdle

\* result = verify_and_answer(question, units, bijections, grids)
Ask(q) ==
  /\ q_question' = q
  /\ q_result' = verify_and_answer(q, doc_units, doc_bijections, doc_grids)
  /\ q_op' = "verify_and_answer"
  /\ UNCHANGED <<doc_units, doc_bijections, doc_grids, first_call>>
  /\ UNCHANGED page_vars /\ UNCHANGED ingest_vars /\ UNCHANGED outer_vars

Next == \E q \in Questions : Ask(q)

Spec == Init /\ [][Next]_vars

\* ------------------------------------------------------------------------
\* Queries on several documents, one of them kept for comparison
\* ------------------------------------------------------------------------
RepeatDocuments ==
  { [units |-> << >>, bijections |-> << >>, grids |-> << >>] }
  \cup { [units |-> <<u>>, bijections |-> << >>, grids |-> << >>] :
           u \in {x \in UnitPool : x.id = <<"v","1">>} }
  \cup { [units |-> << >>, bijections |-> <<b>>, grids |-> << >>] :
           b \in {x \in BijectionPool : x.id \in {<<"p","i","n","o","u","t">>, <<"b","2">>}} }
  \cup { [units |-> << >>, bijections |-> << >>, grids |-> <<g>>] :
           g \in {x \in GridPool : x.id = <<"p","i","n","o","u","t">>} }

RepeatQuestions ==
  { <<"W","h","a","t"," ","i","s"," ","p","i","n"," ","5","?">>, <<"w","h","a","t"," ","i","s"," ","P","i","n"," ","n","u","m","b","e","r"," ","6","?">>, <<"W","h","a","t"," ","i","s"," ","t","h","e"," ","m","a","x","i","m","u","m"," ","v","o","l","t","a","g","e","?">>, <<"h","e","l","l","o">> }

InitRepeat == EngineIdle /\ PageIdle /\ IngestIdle /\ OuterIdle

SameArguments(call, d, q) ==
  call.question = q /\ call.units = d.units /\ call.bijections = d.bijections
  /\ call.grids = d.grids

\* verify_and_answer called on the facts of document d
Query(d, q) ==
  /\ doc_units' = d.units /\ doc_bijections' = d.bijections /\ doc_grids' = d.grids
  /\ q_question' = q
  /\ q_result' = verify_and_answer(q, d.units, d.bijections, d.grids)
  /\ q_op' = "verify_and_answer"
  /\ first_call' = IF first_call = JNull \/ SameArguments(first_call, d, q) THEN first_call
                   ELSE [first_call EXCEPT !.between = TRUE]
  /\ UNCHANGED page_vars /\ UNCHANGED ingest_vars /\ UNCHANGED outer_vars

\* the same, and the call is the one kept for comparison
QueryKept(d, q) ==
  /\ first_call = JNull
  /\ doc_units' = d.units /\ doc_bijections' = d.bijections /\ doc_grids' = d.grids
  /\ q_question' = q
  /\ q_result' = verify_and_answer(q, d.units, d.bijections, d.grids)
  /\ q_op' = "verify_and_answer"
  /\ first_call' = [question |-> q, units |-> d.units, bijections |-> d.bijections,
                    grids |-> d.grids, result |-> q_result', between |-> FALSE]
  /\ UNCHANGED page_vars /\ UNCHANGED ingest_vars /\ UNCHANGED outer_vars

NextRepeat ==
  \/ \E d \in RepeatDocuments, q \in RepeatQuestions : Query(d, q)
  \/ \E d \in RepeatDocuments, q \in RepeatQuestions : QueryKept(d, q)

SpecRepeat == InitRepeat /\ [][NextRepeat]_vars

\* ------------------------------------------------------------------------
\* One page: parsed model response -> normalized -> validated -> canonical facts
\* ------------------------------------------------------------------------
RawOrigin(x, y) == JMap([x |-> JNum(x), y |-> JNum(y)])

RawUnits ==
  { JMap([id |-> JStr(<<"u","1">>), value |-> JStr(<<"3",".","3">>), unit_of_measure |-> JStr(<<"V">>),
          origin |-> RawOrigin(1, 1)]),
    \* no id, an int value, the origin as a list
    JMap([value |-> JInt(5), origin |-> JList(<<JNum(2), JNum(2)>>)]),
    \* the value is a list
    JMap([id |-> JStr(<<"u","3">>), value |-> JList(<<JInt(1), JInt(2)>>),
          origin |-> RawOrigin(3, 3)]),
    \* no origin
    JMap([id |-> JStr(<<"u","4">>), value |-> JStr(<<"x">>)]),
    \* an origin that is not numeric
    JMap([id |-> JStr(<<"u","5">>), value |-> JStr(<<"y">>),
          origin |-> JMap([x |-> JStr(<<"0",".","1">>), y |-> JNum(1)])]),
    \* no value: the label is taken
    JMap([label |-> JStr(<<"V","C","C">>), origin |-> RawOrigin(4, 4)]),
    \* not an object
    JStr(<<"j","u","n","k">>),
    \* a provided id of the form the normalizer synthesizes
    JMap([id |-> JStr(<<"p","0","_","u","1">>), value |-> JStr(<<"1",".","8">>), origin |-> RawOrigin(6, 6)]) }

RawBijections ==
  { JMap([id |-> JStr(<<"b","1">>), left_set |-> JList(<<JStr(<<"5">>)>>),
          right_set |-> JList(<<JStr(<<"V","C","C">>)>>),
          mapping |-> JDict(<<[k |-> <<"5">>, v |-> JStr(<<"V","C","C">>)]>>),
          origin |-> RawOrigin(5, 3)]),
    \* the pair shorthand
    JMap([pair |-> JList(<<JStr(<<"6">>), JStr(<<"G","N","D">>)>>),
          origin |-> JList(<<JNum(6), JNum(3)>>)]),
    \* a mapping value that is not a string
    JMap([id |-> JStr(<<"b","3">>), left_set |-> JList(<<JStr(<<"7">>)>>),
          right_set |-> JList(<<JStr(<<"1">>)>>),
          mapping |-> JDict(<<[k |-> <<"7">>, v |-> JInt(1)]>>),
          origin |-> RawOrigin(7, 3)]),
    \* key / value, no origin
    JMap([id |-> JStr(<<"b","4">>), key |-> JStr(<<"a">>), value |-> JStr(<<"b">>)]),
    \* two keys with the same value
    JMap([id |-> JStr(<<"b","5">>), left_set |-> JList(<<JStr(<<"A">>), JStr(<<"B">>)>>),
          right_set |-> JList(<<JStr(<<"5">>)>>),
          mapping |-> JDict(<<[k |-> <<"A">>, v |-> JStr(<<"5">>)], [k |-> <<"B">>, v |-> JStr(<<"5">>)]>>),
          origin |-> RawOrigin(8, 3)]) }

RawGrids ==
  { JMap([id |-> JStr(<<"g","1">>), rows |-> JInt(1), cols |-> JInt(2),
          cells |-> JList(<<JMap([row |-> JInt(0), col |-> JInt(0), value |-> JStr(<<"5">>)]),
                            JMap([row |-> JInt(0), col |-> JInt(1), value |-> JStr(<<"V","C","C">>),
                                  origin |-> RawOrigin(5, 2)])>>),
          origin |-> RawOrigin(1, 2)]),
    \* no origin
    JMap([rows |-> JInt(1), cols |-> JInt(1),
          cells |-> JList(<<JMap([row |-> JInt(0), col |-> JInt(0), value |-> JStr(<<"5">>)])>>)]),
    \* rows as a list of row objects
    JMap([rows |-> JList(<<JMap([cells |-> JList(<<JMap([value |-> JStr(<<"6">>)]),
                                                   JStr(<<"G","N","D">>)>>)])>>),
          origin |-> RawOrigin(2, 5)]),
    \* rows as a list, an origin that is not coercible
    JMap([id |-> JStr(<<"g","4">>),
          rows |-> JList(<<JMap([cells |-> JList(<<JStr(<<"7">>), JStr(<<"N","C">>)>>)])>>),
          origin |-> JStr(<<"t","o","p">>)]),
    \* neither shape
    JMap([id |-> JStr(<<"g","5">>), origin |-> RawOrigin(3, 5)]),
    \* a cell value that is a list
    JMap([id |-> JStr(<<"g","6">>), rows |-> JInt(1), cols |-> JInt(1),
          cells |-> JList(<<JMap([row |-> JInt(0), col |-> JInt(0),
                                  value |-> JList(<<JInt(1)>>)])>>),
          origin |-> RawOrigin(4, 5)]),
    \* rows is the float NaN
    JMap([id |-> JStr(<<"g","7">>), rows |-> JNonFinite("nan"), cols |-> JInt(1),
          origin |-> RawOrigin(5, 5)]),
    \* a cell whose row is NaN and a cell whose col is Infinity
    JMap([id |-> JStr(<<"g","8">>), rows |-> JInt(1), cols |-> JInt(1),
          cells |-> JList(<<JMap([row |-> JNonFinite("nan"), col |-> JInt(0),
                                  value |-> JStr(<<"5">>)]),
                            JMap([row |-> JInt(0), col |-> JNonFinite("inf"),
                                  value |-> JStr(<<"6">>)])>>),
          origin |-> RawOrigin(6, 5)]) }

\* the parsed responses: at most MaxEntries entries, and two that are not of the shape
RawPages ==
  UNION { { JMap([units |-> JList(u), bijections |-> JList(b), grids |-> JList(g)]) :
              u \in SeqsOfLen(RawUnits, t[1]), b \in SeqsOfLen(RawBijections, t[2]),
              g \in SeqsOfLen(RawGrids, t[3]) } : t \in Splits(MaxEntries) }
  \cup { JList(<< >>), JMap([units |-> JStr(<<"n","o","n","e">>)]) }

\* candidates handed to canonicalize_page directly: objects with the attributes of the
\* extraction schema, some of which the canonical models reject
CandidateUnits ==
  { [id |-> JStr(<<"u","1">>), label |-> JNull, value |-> JStr(<<"3",".","3">>),
     unit_of_measure |-> JStr(<<"V">>), origin |-> JPoint(1, 1), bbox |-> JNull],
    [id |-> JStr(<<"u","2">>), label |-> JStr(<<"V","C","C">>), value |-> JNum(50),
     unit_of_measure |-> JNull, origin |-> JNull, bbox |-> JNull],
    [id |-> JStr(<<"u","3">>), label |-> JNull, value |-> JList(<<JInt(1)>>),
     unit_of_measure |-> JNull, origin |-> JPoint(3, 3), bbox |-> JNull] }

CandidateBijections ==
  { [id |-> JStr(<<"b","1">>), left_set |-> JList(<<JStr(<<"5">>)>>),
     right_set |-> JList(<<JStr(<<"V","C","C">>)>>),
     mapping |-> JDict(<<[k |-> <<"5">>, v |-> JStr(<<"V","C","C">>)]>>),
     origin |-> JPoint(5, 3), bbox |-> JBox(4, 2, 6, 4)],
    [id |-> JStr(<<"b","2">>), left_set |-> JList(<<JStr(<<"7">>)>>),
     right_set |-> JList(<<JStr(<<"1">>)>>),
     mapping |-> JDict(<<[k |-> <<"7">>, v |-> JInt(1)]>>),
     origin |-> JPoint(7, 3), bbox |-> JNull] }

CandidateGrids ==
  { [id |-> JStr(<<"g","1">>), rows |-> JInt(1), cols |-> JInt(1),
     cells |-> JList(<<[row |-> JInt(0), col |-> JInt(0), value |-> JStr(<<"5">>),
                        origin |-> JNull]>>),
     origin |-> JPoint(1, 2), bbox |-> JNull],
    [id |-> JStr(<<"g","2">>), rows |-> JInt(1), cols |-> JInt(1),
     cells |-> JList(<<[row |-> JInt(0), col |-> JInt(0), value |-> JNull,
                        origin |-> JNull]>>),
     origin |-> JPoint(2, 2), bbox |-> JNull] }

CandidatePages ==
  UNION { { [units |-> u, bijections |-> b, grids |-> g] :
              u \in SeqsOfLen(CandidateUnits, t[1]), b \in SeqsOfLen(CandidateBijections, t[2]),
              g \in SeqsOfLen(CandidateGrids, t[3]) } : t \in Splits(MaxEntries) }

InitPage ==
  /\ EngineIdle /\ IngestIdle /\ OuterIdle
  /\ pg_index \in {0, 1} /\ pg_doc \in {"docA", "docB"}
  /\ pg_norm = JNull /\ pg_facts = << >>
  /\ \/ pg_pc = "raw" /\ pg_raw \in RawPages /\ pg_extraction = JNull
     \/ pg_pc = "extracted" /\ pg_raw = JNull /\ pg_extraction \in CandidatePages

\* extract_page after json.loads: normalize, validate (lines 383-395)
ExtractPage ==
  /\ pg_pc = "raw"
  /\ pg_norm' = _normalize_extraction(pg_raw, pg_index)
  \* the call of _normalize_extraction (line 385) is not under the try of line 386
  /\ IF IsRaised(pg_norm')
     THEN pg_extraction' = pg_extraction /\ pg_pc' = "raised"
     ELSE pg_extraction' = model_validate_or_empty(pg_norm') /\ pg_pc' = "extracted"
  /\ UNCHANGED <<pg_raw, pg_index, pg_doc, pg_facts>>
  /\ UNCHANGED engine_vars /\ UNCHANGED ingest_vars /\ UNCHANGED outer_vars

\* canonical = canonicalize_page(extraction, doc_id, page_index)
CanonicalizePage ==
  /\ pg_pc = "extracted"
  /\ pg_facts' = canonicalize_page(pg_extraction, pg_doc, pg_index)
  /\ pg_pc' = "canonical"
  /\ UNCHANGED <<pg_raw, pg_index, pg_doc, pg_norm, pg_extraction>>
  /\ UNCHANGED engine_vars /\ UNCHANGED ingest_vars /\ UNCHANGED outer_vars

NextPage == ExtractPage \/ CanonicalizePage

SpecPage == InitPage /\ [][NextPage]_vars

\* ------------------------------------------------------------------------
\* One run of ingest_document (ingest/pipeline.py)
\* ------------------------------------------------------------------------
\* the rendered pages: load_pdf_pages skips the pages that fail to render, so the list
\* is an increasing sequence of page indexes below the page count
Increasing(ps) == \A k \in 1..(Len(ps) - 1) : ps[k] < ps[k + 1]
PageLists ==
  UNION { {ps \in SeqsOfLen(0..(MaxPages - 1), n) : Increasing(ps)} : n \in 0..MaxPages }

\* what the extractor does for a page: it returns an extraction with candidates, it
\* returns the empty extraction, it raises a rate-limit error, it raises another error
ExtractorOutcomes == {"facts", "empty", "rate_limit", "error"}

\* the extraction the extractor returns for a page
ExtractionOf(outcome, page) ==
  IF outcome # "facts" THEN EmptyExtraction
  ELSE IF page % 2 = 0
  THEN [units |-> <<CHOOSE e \in CandidateUnits : e.id = JStr(<<"u","1">>)>>,
        bijections |-> <<CHOOSE e \in CandidateBijections : e.id = JStr(<<"b","1">>)>>,
        grids |-> << >>]
  ELSE [units |-> << >>, bijections |-> << >>,
        grids |-> <<CHOOSE e \in CandidateGrids : e.id = JStr(<<"g","1">>)>>]

\* what the progress observer does when called during one step: "no" is returning
\* normally, otherwise the phase of the call that raises (and, inside the page's try,
\* whether the orchestrator classifies what it raised as a rate limit)
ObserverFails(observer, phases) == IF observer = "faulty" THEN {"no"} \cup phases ELSE {"no"}

InitIngest ==
  /\ EngineIdle /\ PageIdle /\ OuterIdle
  /\ ing_pc = "start"
  /\ ing_cfg \in [doc_id : {"docA"}, pdf_exists : BOOLEAN, store : BOOLEAN,
                  observer : {"none", "ok", "faulty"},
                  page_delay : {0, DefaultPageDelay}, cooldown : {0, DefaultCooldown}]
  /\ ing_pages \in PageLists
  /\ ing_i = 0 /\ all_canonical = << >> /\ pages_failed = 0 /\ ing_result = JNull
  /\ ing_trace = << >> /\ ing_outcomes = << >>

Outcome(page, outcome, fail) == [page |-> page, outcome |-> outcome, fail |-> fail]

\* lines 55-66: the PDF must exist; rendering, rendering_done
Begin(fail) ==
  /\ ing_pc = "start"
  /\ fail \in ObserverFails(ing_cfg.observer, {"rendering", "rendering_done"})
  /\ IF ~ing_cfg.pdf_exists
     THEN ing_pc' = "raised" /\ UNCHANGED <<ing_trace, ing_outcomes>>
     ELSE /\ ing_trace' =
               progress(ing_cfg.observer, "rendering", NoPage)
               \o (IF fail = "rendering" THEN << >>
                   ELSE progress(ing_cfg.observer, "rendering_done", NoPage))
          /\ ing_pc' = IF fail = "no" THEN "pages" ELSE "raised"
          /\ ing_outcomes' = IF fail = "no" THEN ing_outcomes
                             ELSE Append(ing_outcomes, Outcome(NoPage, "observer", fail))
  /\ UNCHANGED <<ing_cfg, ing_pages, ing_i, all_canonical, pages_failed, ing_result>>
  /\ UNCHANGED engine_vars /\ UNCHANGED page_vars /\ UNCHANGED outer_vars

\* lines 68-93: one iteration of the loop over the rendered pages
ProcessPage(outcome, fail) ==
  LET i == ing_i + 1
      page == page_index_at(ing_pages, i)
      returned == outcome \in {"facts", "empty"}
      in_try == IF returned THEN {"canonicalizing", "canonicalizing_429"} ELSE {}
      before_try == page_delay_sleep(i, ing_cfg.page_delay, page)
                    \o progress(ing_cfg.observer, "extracting", page)
      page_ok == returned /\ fail = "no"
      rate_limited == IF returned THEN fail = "canonicalizing_429" ELSE outcome = "rate_limit"
  IN /\ ing_pc = "pages" /\ ing_i < Len(ing_pages)
     /\ fail \in ObserverFails(ing_cfg.observer, {"extracting"} \cup in_try)
     /\ ing_outcomes' = Append(ing_outcomes, Outcome(page, outcome, fail))
     /\ IF fail = "extracting"
        THEN /\ ing_pc' = "raised"
             /\ ing_trace' = ing_trace \o before_try
             /\ UNCHANGED <<ing_i, all_canonical, pages_failed>>
        ELSE /\ ing_pc' = "pages"
             /\ ing_i' = i
             /\ ing_trace' =
                  ing_trace \o before_try \o <<Event("extract", "call", page)>>
                  \o (IF returned THEN progress(ing_cfg.observer, "canonicalizing", page)
                      ELSE << >>)
                  \o (IF page_ok THEN << >>
                      ELSE cooldown_sleep(rate_limited, ing_cfg.cooldown, page))
             /\ all_canonical' =
                  IF page_ok
                  THEN extend(all_canonical,
                              canonicalize_page(ExtractionOf(outcome, page), ing_cfg.doc_id, page))
                  ELSE all_canonical
             /\ pages_failed' = IF page_ok THEN pages_failed ELSE count_failed(pages_failed)
     /\ UNCHANGED <<ing_cfg, ing_pages, ing_result>>
     /\ UNCHANGED engine_vars /\ UNCHANGED page_vars /\ UNCHANGED outer_vars

\* lines 95-144: the store, the summary, the return
Finish(fail) ==
  LET total_pages == Len(ing_pages)
      stored == ing_cfg.store /\ fail # "storing"
  IN /\ ing_pc = "pages" /\ ing_i = Len(ing_pages)
     /\ fail \in ObserverFails(ing_cfg.observer,
                               IF ing_cfg.store THEN {"storing", "done"} ELSE {"done"})
     /\ ing_trace' =
          ing_trace
          \o (IF ing_cfg.store THEN progress(ing_cfg.observer, "storing", NoPage) ELSE << >>)
          \o (IF stored THEN <<Event("store", "store_canonical", NoPage)>> ELSE << >>)
          \o (IF fail = "storing" THEN << >> ELSE progress(ing_cfg.observer, "done", NoPage))
     /\ ing_outcomes' = IF fail = "no" THEN ing_outcomes
                        ELSE Append(ing_outcomes, Outcome(NoPage, "observer", fail))
     /\ IF fail = "no"
        THEN /\ ing_pc' = "returned"
             /\ ing_result' = [doc_id |-> ing_cfg.doc_id, facts |-> all_canonical,
                               total_pages |-> total_pages, pages_failed |-> pages_failed,
                               summary |-> done_message(ing_cfg.doc_id, total_pages,
                                                        pages_failed, all_canonical)]
        ELSE ing_pc' = "raised" /\ UNCHANGED ing_result
     /\ UNCHANGED <<ing_cfg, ing_pages, ing_i, all_canonical, pages_failed>>
     /\ UNCHANGED engine_vars /\ UNCHANGED page_vars /\ UNCHANGED outer_vars

NextIngest ==
  \/ \E fail \in {"no", "rendering", "rendering_done"} : Begin(fail)
  \/ \E outcome \in ExtractorOutcomes,
        fail \in {"no", "extracting", "canonicalizing", "canonicalizing_429"} :
       ProcessPage(outcome, fail)
  \/ \E fail \in {"no", "storing", "done"} : Finish(fail)

SpecIngest == InitIngest /\ [][NextIngest]_vars

\* ------------------------------------------------------------------------
\* The three maximum rules called on a list of units
\* ------------------------------------------------------------------------
RuleUnits ==
  { UnitFact(<<"r","1">>, JNull, JNum(33), JStr(<<"V">>), 1, 1, 0),
    UnitFact(<<"r","2">>, JNull, JNum(50), JStr(<<"V">>), 2, 2, 0),
    \* the same voltage as r2, as text
    UnitFact(<<"r","3">>, JNull, JStr(<<"5">>), JStr(<<"V">>), 3, 3, 0),
    \* a voltage only in the text
    UnitFact(<<"r","4">>, JStr(<<"S","u","p","p","l","y">>), JStr(<<"1","2","V">>), JNull, 3, 2, 1),
    \* a unit of measure that is not a voltage name but ends in "V"
    UnitFact(<<"r","5">>, JStr(<<"r","e","f"," ","3","V">>), JNum(5000), JStr(<<"m","V">>), 4, 2, 1),
    \* a structured current with another current in its label
    UnitFact(<<"r","6">>, JStr(<<"p","e","a","k"," ","9","0","0","m","A">>), JNum(20), JStr(<<"A">>), 1, 4, 1),
    \* a capacity only in the text, and a structured capacity
    UnitFact(<<"r","7">>, JStr(<<"N","o","m","i","n","a","l"," ","c","a","p","a","c","i","t","y">>), JStr(<<"2","0","0","0","m","A","h">>), JNull, 2, 6, 1),
    UnitFact(<<"r","8">>, JNull, JNum(30), JStr(<<"A","h">>), 2, 7, 1) }

RuleQuestions ==
  { <<"W","h","a","t"," ","i","s"," ","t","h","e"," ","m","a","x","i","m","u","m"," ","v","o","l","t","a","g","e","?">>, <<"m","a","x","i","m","u","m"," ","c","u","r","r","e","n","t">>, <<"n","o","m","i","n","a","l"," ","c","a","p","a","c","i","t","y">>, <<"m","a","x">> }

InitRules ==
  /\ \E n \in 0..MaxFacts : doc_units \in SeqsOfLen(RuleUnits, n)
  /\ doc_bijections = << >> /\ doc_grids = << >>
  /\ q_question = << >> /\ q_result = JNull /\ q_op = "none" /\ first_call = JNull
  /\ PageIdle /\ IngestIdle /\ OuterIdle

TryVoltageMax(q) ==
  /\ q_question' = q
  /\ q_result' = _try_voltage_max(q, doc_units)
  /\ q_op' = "_try_voltage_max"
  /\ UNCHANGED <<doc_units, doc_bijections, doc_grids, first_call>>
  /\ UNCHANGED page_vars /\ UNCHANGED ingest_vars /\ UNCHANGED outer_vars

TryMaxCurrent(q) ==
  /\ q_question' = q
  /\ q_result' = _try_max_current(q, doc_units)
  /\ q_op' = "_try_max_current"
  /\ UNCHANGED <<doc_units, doc_bijections, doc_grids, first_call>>
  /\ UNCHANGED page_vars /\ UNCHANGED ingest_vars /\ UNCHANGED outer_vars

TryMaxCapacity(q) ==
  /\ q_question' = q
  /\ q_result' = _try_max_capacity(q, doc_units)
  /\ q_op' = "_try_max_capacity"
  /\ UNCHANGED <<doc_units, doc_bijections, doc_grids, first_call>>
  /\ UNCHANGED page_vars /\ UNCHANGED ingest_vars /\ UNCHANGED outer_vars

\* _try_unit_by_intent(question, units)
TryUnitByIntent(q) ==
  /\ q_question' = q
  /\ q_result' = _try_unit_by_intent(q, doc_units)
  /\ q_op' = "_try_unit_by_intent"
  /\ UNCHANGED <<doc_units, doc_bijections, doc_grids, first_call>>
  /\ UNCHANGED page_vars /\ UNCHANGED ingest_vars /\ UNCHANGED outer_vars

NextRules ==
  \/ \E q \in RuleQuestions : TryUnitByIntent(q)
  \/ \E q \in RuleQuestions : TryVoltageMax(q)
  \/ \E q \in RuleQuestions : TryMaxCurrent(q)
  \/ \E q \in RuleQuestions : TryMaxCapacity(q)

SpecRules == InitRules /\ [][NextRules]_vars

\* ------------------------------------------------------------------------
\* The lookups of one Bijection
\* ------------------------------------------------------------------------
LookupKeys == {<<"5">>, <<"6">>, <<"A">>}
LookupValues == {<<"V","C","C">>, <<"G","N","D">>, <<"5">>}
\* the strings looked up: keys, values, and one that is neither
LookupArgs == LookupKeys \cup LookupValues \cup {<<"X">>}

\* the dicts of at most MaxEntries items: distinct keys, values free
Mappings ==
  UNION { { m \in SeqsOfLen({Item(k, v) : k \in LookupKeys, v \in LookupValues}, n) :
              \A i, j \in 1..n : i # j => m[i].k # m[j].k } : n \in 0..MaxEntries }

InitBijection ==
  /\ \E m \in Mappings : doc_bijections = <<BijectionFact(<<"b">>, m, 5, 3, 0, JNull)>>
  /\ doc_units = << >> /\ doc_grids = << >>
  /\ q_question = << >> /\ q_result = JNull /\ q_op = "none" /\ first_call = JNull
  /\ PageIdle /\ IngestIdle /\ OuterIdle

\* b.get_right(left)
GetRight(left) ==
  /\ q_question' = left
  /\ q_result' = get_right(doc_bijections[1], left)
  /\ q_op' = "get_right"
  /\ UNCHANGED <<doc_units, doc_bijections, doc_grids, first_call>>
  /\ UNCHANGED page_vars /\ UNCHANGED ingest_vars /\ UNCHANGED outer_vars

\* b.get_left(right)
GetLeft(right) ==
  /\ q_question' = right
  /\ q_result' = get_left(doc_bijections[1], right)
  /\ q_op' = "get_left"
  /\ UNCHANGED <<doc_units, doc_bijections, doc_grids, first_call>>
  /\ UNCHANGED page_vars /\ UNCHANGED ingest_vars /\ UNCHANGED outer_vars

\* b.get_left(b.get_right(left)) for a key of the mapping
RoundTrip(left) ==
  /\ get_right(doc_bijections[1], left) # JNull
  /\ q_question' = left
  /\ q_result' = get_left(doc_bijections[1], get_right(doc_bijections[1], left).s)
  /\ q_op' = "round_trip"
  /\ UNCHANGED <<doc_units, doc_bijections, doc_grids, first_call>>
  /\ UNCHANGED page_vars /\ UNCHANGED ingest_vars /\ UNCHANGED outer_vars

NextBijection ==
  \/ \E a \in LookupArgs : GetRight(a)
  \/ \E a \in LookupArgs : GetLeft(a)
  \/ \E a \in LookupArgs : RoundTrip(a)

SpecBijection == InitBijection /\ [][NextBijection]_vars

\* ------------------------------------------------------------------------
\* POST /query (api/app.py) and the phrasing collaborator (ingest/gemini_format.py)
\* ------------------------------------------------------------------------
UNABLE_TO_PHRASE == <<"U","N","A","B","L","E"," ","T","O"," ","P","H","R","A","S","E">>

\* what the phrasing model answers with
PhrasedTexts == { <<"V","C","C"," ","i","s"," ","p","i","n"," ","5",".">>, <<" ","P","i","n"," ","6"," ","i","s"," ","G","N","D","."," ">>, <<"U","n","a","b","l","e"," ","t","o"," ","p","h","r","a","s","e">>, <<" "," ">>, << >> }

\* the phrasing collaborator during one request: whether GOOGLE_API_KEY is set, and
\* what the Gemini client does: genai.configure or GenerativeModel raises,
\* generate_content raises, it returns a text, or it does not answer within
\* AKILI_FORMAT_TIMEOUT_SEC
Phrasing(key, does, text) == [key |-> key, does |-> does, text |-> text]
Phrasings ==
  {Phrasing(FALSE, "returns", << >>)}
  \cup {Phrasing(TRUE, does, << >>) : does \in {"configure_raises", "generate_raises", "slow"}}
  \cup {Phrasing(TRUE, "returns", text) : text \in PhrasedTexts}

\* format_answer(question, verified_fact, coordinates): the sentence, None, or the
\* exception that leaves it
format_answer(gemini) ==
  LET Checked(text) ==
        IF Len(text) = 0 \/ Contains(UNABLE_TO_PHRASE, Upper(text)) THEN JNull ELSE JStr(text)
  IN IF ~gemini.key THEN JNull
     ELSE IF gemini.does = "configure_raises" THEN Raised("Exception")
     ELSE IF gemini.does = "generate_raises" THEN JNull
     ELSE Checked(Strip(gemini.text))

\* await asyncio.wait_for(loop.run_in_executor(..., format_answer), timeout): the value,
\* or None when the wait times out or the call raises (lines 356-366)
formatted_or_none(gemini) ==
  LET Caught(formatted) == IF IsRaised(formatted) THEN JNull ELSE formatted
  IN IF gemini.key /\ gemini.does = "slow" THEN JNull ELSE Caught(format_answer(gemini))

\* a dump that loses the proof
model_dump_without_proof(result) ==
  IF result.status = "refuse" THEN [status |-> result.status, reason |-> result.reason]
  ELSE [status |-> result.status, answer |-> result.answer, proof |-> << >>,
        source_id |-> result.source_id, source_type |-> result.source_type]

\* result.model_dump(): the fields of the result as a dict
model_dump(result) ==
  IF result.status = "refuse" THEN [status |-> result.status, reason |-> result.reason]
  ELSE [status |-> result.status, answer |-> result.answer, proof |-> result.proof,
        source_id |-> result.source_id, source_type |-> result.source_type]

\* content["formatted_answer"] = formatted
with_formatted_answer(content, formatted) ==
  [status |-> content.status, answer |-> content.answer, proof |-> content.proof,
   source_id |-> content.source_id, source_type |-> content.source_type,
   formatted_answer |-> formatted]

QueryRequest(doc, question, include_formatted_answer) ==
  [endpoint |-> "query", doc |-> doc, question |-> question,
   include_formatted_answer |-> include_formatted_answer]

JSONResponse(status_code, content) == [status_code |-> status_code, content |-> content]

\* one call of a collaborator and how it ended
Call(name, outcome) == [name |-> name, outcome |-> outcome]

StoreReads ==
  <<Call("get_units_by_doc", "returned"), Call("get_bijections_by_doc", "returned"),
    Call("get_grids_by_doc", "returned")>>

\* how the awaited call of format_answer ended
awaited(gemini) ==
  IF gemini.key /\ gemini.does = "slow" THEN "timeout"
  ELSE IF IsRaised(format_answer(gemini)) THEN "raised" ELSE "returned"

InitQuery == EngineIdle /\ PageIdle /\ IngestIdle /\ OuterIdle

\* query(req): the store holds the facts of document d (lines 333-366)
QueryEndpoint(d, q, include, gemini) ==
  LET Respond(result) ==
        LET phrase == include /\ result.status = "answer"
        IN /\ q_result' = result
           /\ api_calls' = StoreReads \o <<Call("verify_and_answer", "returned")>>
                           \o (IF phrase THEN <<Call("format_answer", awaited(gemini))>>
                               ELSE << >>)
           /\ api_response' =
                JSONResponse(200, IF phrase
                                  THEN with_formatted_answer(model_dump(result),
                                                             formatted_or_none(gemini))
                                  ELSE model_dump(result))
  IN /\ api_request' = QueryRequest(d, q, include)
     /\ doc_units' = d.units /\ doc_bijections' = d.bijections /\ doc_grids' = d.grids
     /\ q_question' = q /\ q_op' = "verify_and_answer"
     /\ Respond(verify_and_answer(q, d.units, d.bijections, d.grids))
     /\ UNCHANGED first_call
     /\ UNCHANGED page_vars /\ UNCHANGED ingest_vars
     /\ UNCHANGED <<retry_vars, stream_vars, invocations>>

NextQuery ==
  \E d \in RepeatDocuments, q \in Questions, include \in BOOLEAN, gemini \in Phrasings :
    QueryEndpoint(d, q, include, gemini)

SpecQuery == InitQuery /\ [][NextQuery]_vars

\* ------------------------------------------------------------------------
\* Two invocations of ingest_document for different documents, interleaved
\* ------------------------------------------------------------------------
MaxConcurrentPages == 2
Invocations == {1, 2}
\* the document of each invocation
DocIdOf(k) == IF k = 1 THEN "docA" ELSE "docB"
ConcurrentPageLists == {ps \in PageLists : Len(ps) <= MaxConcurrentPages}

\* the local variables of ingest_document at its start (lines 55-66)
Locals(doc_id, pages) ==
  [pc |-> "loop", doc_id |-> doc_id, pages |-> pages, i |-> 0, canonical |-> JNull,
   all_canonical |-> << >>, pages_failed |-> 0, outcomes |-> << >>, result |-> JNull]

InitConcurrent ==
  /\ EngineIdle /\ PageIdle /\ IngestIdle /\ ApiIdle /\ RetryIdle /\ StreamIdle
  /\ \E p1 \in ConcurrentPageLists, p2 \in ConcurrentPageLists :
       invocations = <<Locals(DocIdOf(1), p1), Locals(DocIdOf(2), p2)>>

\* one list for all the invocations
accumulator_shared(k) == invocations[1].all_canonical

\* all_canonical: the list of the invocation (line 65)
accumulator(k) == invocations[k].all_canonical

\* lines 72-75, the extraction of the next page and its canonicalization
InvokeExtract(k, outcome) ==
  LET my == invocations[k]
      page == page_index_at(my.pages, my.i + 1)
  IN /\ my.pc = "loop" /\ my.i < Len(my.pages)
     /\ invocations' =
          [invocations EXCEPT
             ![k].pc = IF outcome = "error" THEN "except" ELSE "extend",
             ![k].outcomes = Append(my.outcomes, outcome),
             ![k].canonical =
               IF outcome = "error" THEN JNull
               ELSE canonicalize_page(ExtractionOf(outcome, page), my.doc_id, page)]
     /\ UNCHANGED engine_vars /\ UNCHANGED page_vars /\ UNCHANGED ingest_vars
     /\ UNCHANGED <<api_vars, retry_vars, stream_vars>>

\* line 76, all_canonical.extend(canonical)
InvokeExtend(k) ==
  /\ invocations[k].pc = "extend"
  /\ invocations' =
       [invocations EXCEPT
          ![k].pc = "loop", ![k].i = @ + 1, ![k].canonical = JNull,
          ![k].all_canonical = extend(accumulator(k), invocations[k].canonical)]
  /\ UNCHANGED engine_vars /\ UNCHANGED page_vars /\ UNCHANGED ingest_vars
  /\ UNCHANGED <<api_vars, retry_vars, stream_vars>>

\* lines 77-93, the page failed
InvokeExcept(k) ==
  /\ invocations[k].pc = "except"
  /\ invocations' =
       [invocations EXCEPT
          ![k].pc = "loop", ![k].i = @ + 1,
          ![k].pages_failed = count_failed(invocations[k].pages_failed)]
  /\ UNCHANGED engine_vars /\ UNCHANGED page_vars /\ UNCHANGED ingest_vars
  /\ UNCHANGED <<api_vars, retry_vars, stream_vars>>

\* line 144, return doc_id, all_canonical, total_pages, pages_failed
InvokeReturn(k) ==
  LET my == invocations[k]
  IN /\ my.pc = "loop" /\ my.i = Len(my.pages)
     /\ invocations' =
          [invocations EXCEPT
             ![k].pc = "returned",
             ![k].result = [doc_id |-> my.doc_id, facts |-> accumulator(k),
                            total_pages |-> Len(my.pages),
                            pages_failed |-> my.pages_failed]]
     /\ UNCHANGED engine_vars /\ UNCHANGED page_vars /\ UNCHANGED ingest_vars
     /\ UNCHANGED <<api_vars, retry_vars, stream_vars>>

NextConcurrent ==
  \/ \E k \in Invocations, outcome \in {"facts", "error"} : InvokeExtract(k, outcome)
  \/ \E k \in Invocations : InvokeExtend(k)
  \/ \E k \in Invocations : InvokeExcept(k)
  \/ \E k \in Invocations : InvokeReturn(k)

SpecConcurrent == InitConcurrent /\ [][NextConcurrent]_vars

\* ------------------------------------------------------------------------
\* The document endpoints with a doc_id in the path (api/app.py)
\* ------------------------------------------------------------------------
MaxIdLen == 2
\* the characters the doc_id of a request is made of
IdChars == {"a", "Z", "7", "_", "-", " ", "/", ".", "\n"}
DocIds == UNION {SeqsOfLen(IdChars, n) : n \in 1..MaxIdLen}

\* [a-zA-Z0-9_-]
IsIdChar(c) == IsWordChar(c) \/ c = "-"

\* a check that lets every doc_id pass
doc_id_unchecked(doc_id) == TRUE

\* not _validate_doc_id raising: re.match(r"^[a-zA-Z0-9_-]+$", doc_id), where $ matches
\* at the end of the string and before a newline that ends the string
doc_id_accepted(doc_id) ==
  LET AllIdChars(n) == n >= 1 /\ \A i \in 1..n : IsIdChar(doc_id[i])
  IN /\ Len(doc_id) > 0
     /\ \/ AllIdChars(Len(doc_id))
        \/ doc_id[Len(doc_id)] = "\n" /\ AllIdChars(Len(doc_id) - 1)

\* raise HTTPException(status_code=400, detail="Invalid doc_id")
InvalidDocId == [status_code |-> 400, content |-> [detail |-> <<"I","n","v","a","l","i","d"," ","d","o","c","_","i","d">>]]

DocumentRequest(endpoint, doc_id) == [endpoint |-> endpoint, doc_id |-> doc_id]

InitDocuments == EngineIdle /\ PageIdle /\ IngestIdle /\ OuterIdle

\* delete_document(doc_id), the PDF of the document being on the disk or not
DeleteDocument(doc_id, is_file) ==
  /\ api_request' = DocumentRequest("delete_document", doc_id)
  /\ IF ~doc_id_accepted(doc_id)
     THEN api_response' = InvalidDocId /\ api_calls' = << >>
     ELSE /\ api_calls' = <<Call("store.delete_document", "returned"),
                            Call("dest.is_file", IF is_file THEN "true" ELSE "false")>>
                          \o (IF is_file THEN <<Call("dest.unlink", "returned")>> ELSE << >>)
          /\ api_response' = JSONResponse(200, [doc_id |-> doc_id, deleted |-> TRUE])
  /\ UNCHANGED engine_vars /\ UNCHANGED page_vars /\ UNCHANGED ingest_vars
  /\ UNCHANGED <<retry_vars, stream_vars, invocations>>

\* get_document_file(doc_id)
GetDocumentFile(doc_id, is_file) ==
  /\ api_request' = DocumentRequest("get_document_file", doc_id)
  /\ IF ~doc_id_accepted(doc_id)
     THEN api_response' = InvalidDocId /\ api_calls' = << >>
     ELSE /\ api_calls' = <<Call("dest.is_file", IF is_file THEN "true" ELSE "false")>>
          /\ api_response' =
               IF is_file THEN JSONResponse(200, [filename |-> doc_id \o <<".","p","d","f">>])
               ELSE JSONResponse(404, [detail |-> <<"D","o","c","u","m","e","n","t"," ","f","i","l","e"," ","n","o","t"," ","f","o","u","n","d">>])
  /\ UNCHANGED engine_vars /\ UNCHANGED page_vars /\ UNCHANGED ingest_vars
  /\ UNCHANGED <<retry_vars, stream_vars, invocations>>

\* get_canonical(doc_id): the store holds nothing under the doc_id, or one unit
GetCanonical(doc_id, stored) ==
  /\ api_request' = DocumentRequest("get_canonical", doc_id)
  /\ api_calls' = StoreReads
  /\ api_response' =
       JSONResponse(200, [doc_id |-> doc_id,
                          units |-> IF stored THEN <<[type |-> "unit"]>> ELSE << >>,
                          bijections |-> << >>, grids |-> << >>])
  /\ UNCHANGED engine_vars /\ UNCHANGED page_vars /\ UNCHANGED ingest_vars
  /\ UNCHANGED <<retry_vars, stream_vars, invocations>>

NextDocuments ==
  \/ \E doc_id \in DocIds, is_file \in BOOLEAN : DeleteDocument(doc_id, is_file)
  \/ \E doc_id \in DocIds, is_file \in BOOLEAN : GetDocumentFile(doc_id, is_file)
  \/ \E doc_id \in DocIds, stored \in BOOLEAN : GetCanonical(doc_id, stored)

SpecDocuments == InitDocuments /\ [][NextDocuments]_vars

\* ------------------------------------------------------------------------
\* One call of extract_page: the attempts (ingest/gemini_extract.py 314-354)
\* ------------------------------------------------------------------------
\* AKILI_GEMINI_BACKOFF_BASE, the default
DefaultBackoffBase == 8
\* the largest AKILI_GEMINI_MAX_RETRIES tried
MaxRetries == 3

\* one entry of the log of a call of extract_page
Attempted(ev, attempt, outcome) == [ev |-> ev, attempt |-> attempt, outcome |-> outcome]
Slept(attempt, wait) == [ev |-> "sleep", attempt |-> attempt, outcome |-> wait]

\* the same wait after every attempt
backoff_constant(base, attempt) == base

\* wait = _GEMINI_BACKOFF_BASE * (2**attempt)
backoff(base, attempt) == base * (2 ^ attempt)

InitRetry ==
  /\ EngineIdle /\ PageIdle /\ IngestIdle /\ ApiIdle /\ StreamIdle /\ invocations = << >>
  /\ rt_pc = "start" /\ rt_attempt = 0 /\ rt_log = << >>
  /\ rt_cfg \in [key : BOOLEAN, max_retries : 0..MaxRetries,
                 backoff_base : {0, DefaultBackoffBase}]

\* lines 314-335: the API key is required; for attempt in range(_GEMINI_MAX_RETRIES);
\* with no attempt to make, response is read unbound after the loop
Configure ==
  /\ rt_pc = "start"
  /\ rt_pc' = IF ~rt_cfg.key \/ rt_cfg.max_retries <= 0 THEN "raised" ELSE "call"
  /\ UNCHANGED <<rt_cfg, rt_attempt, rt_log>>
  /\ UNCHANGED engine_vars /\ UNCHANGED page_vars /\ UNCHANGED ingest_vars
  /\ UNCHANGED <<api_vars, stream_vars, invocations>>

\* except Exception as e (lines 349-354): sleep and go on, or raise
handled(rate_limited) ==
  IF rate_limited /\ rt_attempt < rt_cfg.max_retries - 1
  THEN /\ rt_log' = rt_log \o <<Attempted("call", rt_attempt, "rate_limit"),
                                Slept(rt_attempt, backoff(rt_cfg.backoff_base, rt_attempt))>>
       /\ rt_attempt' = rt_attempt + 1
       /\ rt_pc' = "call"
  ELSE /\ rt_log' = Append(rt_log, Attempted("call", rt_attempt,
                                             IF rate_limited THEN "rate_limit" ELSE "error"))
       /\ rt_pc' = "raised"
       /\ UNCHANGED rt_attempt

\* lines 337-342: the call with the response schema; GenerationConfig or
\* generate_content may raise TypeError, AttributeError or ValueError
CallWithSchema(outcome) ==
  /\ rt_pc = "call"
  /\ CASE outcome = "returns" ->
            /\ rt_log' = Append(rt_log, Attempted("call", rt_attempt, "returns"))
            /\ rt_pc' = "parse" /\ UNCHANGED rt_attempt
       [] outcome = "config_error" ->
            /\ rt_log' = Append(rt_log, Attempted("config", rt_attempt, "schema_error"))
            /\ rt_pc' = "fallback" /\ UNCHANGED rt_attempt
       [] outcome = "schema_error" ->
            /\ rt_log' = Append(rt_log, Attempted("call", rt_attempt, "schema_error"))
            /\ rt_pc' = "fallback" /\ UNCHANGED rt_attempt
       [] outcome \in {"rate_limit", "error"} -> handled(outcome = "rate_limit")
  /\ UNCHANGED rt_cfg
  /\ UNCHANGED engine_vars /\ UNCHANGED page_vars /\ UNCHANGED ingest_vars
  /\ UNCHANGED <<api_vars, stream_vars, invocations>>

\* lines 343-346: response = model.generate_content(contents)
CallPromptOnly(outcome) ==
  /\ rt_pc = "fallback"
  /\ IF outcome = "returns"
     THEN /\ rt_log' = Append(rt_log, Attempted("call", rt_attempt, "returns"))
          /\ rt_pc' = "parse" /\ UNCHANGED rt_attempt
     ELSE handled(outcome = "rate_limit")
  /\ UNCHANGED rt_cfg
  /\ UNCHANGED engine_vars /\ UNCHANGED page_vars /\ UNCHANGED ingest_vars
  /\ UNCHANGED <<api_vars, stream_vars, invocations>>

\* lines 356-395: the text of the response is parsed, normalized and validated; the
\* normalizer may raise
ParseResponse(raises) ==
  /\ rt_pc = "parse"
  /\ rt_pc' = IF raises THEN "raised" ELSE "returned"
  /\ UNCHANGED <<rt_cfg, rt_attempt, rt_log>>
  /\ UNCHANGED engine_vars /\ UNCHANGED page_vars /\ UNCHANGED ingest_vars
  /\ UNCHANGED <<api_vars, stream_vars, invocations>>

NextRetry ==
  \/ Configure
  \/ \E outcome \in {"returns", "config_error", "schema_error", "rate_limit", "error"} :
       CallWithSchema(outcome)
  \/ \E outcome \in {"returns", "rate_limit", "error"} : CallPromptOnly(outcome)
  \/ \E raises \in BOOLEAN : ParseResponse(raises)

SpecRetry == InitRetry /\ [][NextRetry]_vars

\* ------------------------------------------------------------------------
\* api/app.py: POST /ingest/stream, the ingest thread and the event stream
\* ------------------------------------------------------------------------
\* an item of progress_queue: the message and its phase, msg.get("phase")
QueueItem(phase, msg) == [phase |-> phase, msg |-> msg]
NoPhase == "none"
TerminalPhases == {"done", "error"}

\* a callback that puts every message into the queue
callback_puts_all(msg) == TRUE

\* callback(msg): if msg.get("phase") != "done": progress_queue.put(msg)
callback_puts(msg) == msg.phase # "done"

\* result_holder: the messages the callback kept
result_holder ==
  SelectSeq(SelectSeq(ing_trace, LAMBDA e : e.ev = "progress"),
            LAMBDA msg : ~callback_puts(msg))

\* everything put into progress_queue so far, in the order of the puts: both the
\* callback and the last put run in the ingest thread
Puts ==
  LET put == SelectSeq(SelectSeq(ing_trace, LAMBDA e : e.ev = "progress"), callback_puts)
  IN [k \in 1..Len(put) |-> QueueItem(put[k].phase, put[k])]
     \o (IF st_terminal = JNull THEN << >> ELSE <<st_terminal>>)

\* the request is accepted, the upload is written to tmp_path, the thread is started
\* with the store of the application, the generator waits for the first message
InitStream ==
  /\ EngineIdle /\ PageIdle /\ ApiIdle /\ RetryIdle /\ invocations = << >>
  /\ ing_pc = "start"
  /\ ing_cfg \in [doc_id : {"docA"}, pdf_exists : {TRUE}, store : {TRUE},
                  observer : {"ok"}, page_delay : {DefaultPageDelay},
                  cooldown : {DefaultCooldown}]
  /\ ing_pages \in PageLists
  /\ ing_i = 0 /\ all_canonical = << >> /\ pages_failed = 0 /\ ing_result = JNull
  /\ ing_trace = << >> /\ ing_outcomes = << >>
  /\ st_pc = "streaming" /\ st_terminal = JNull /\ st_read = 0 /\ st_delivered = << >>

\* pipeline.py lines 60-61: load_pdf_pages raises (the upload is a PDF by name only)
RenderFails ==
  /\ ing_pc = "start" /\ ing_cfg.pdf_exists
  /\ ing_trace' = ing_trace \o progress(ing_cfg.observer, "rendering", NoPage)
  /\ ing_pc' = "raised"
  /\ ing_outcomes' = Append(ing_outcomes, Outcome(NoPage, "render_error", "no"))
  /\ UNCHANGED <<ing_cfg, ing_pages, ing_i, all_canonical, pages_failed, ing_result>>
  /\ UNCHANGED engine_vars /\ UNCHANGED page_vars /\ UNCHANGED outer_vars

\* pipeline.py lines 111-116: store.store_canonical raises
StoreFails ==
  /\ ing_pc = "pages" /\ ing_i = Len(ing_pages) /\ ing_cfg.store
  /\ ing_trace' = ing_trace \o progress(ing_cfg.observer, "storing", NoPage)
  /\ ing_pc' = "raised"
  /\ ing_outcomes' = Append(ing_outcomes, Outcome(NoPage, "store_error", "no"))
  /\ UNCHANGED <<ing_cfg, ing_pages, ing_i, all_canonical, pages_failed, ing_result>>
  /\ UNCHANGED engine_vars /\ UNCHANGED page_vars /\ UNCHANGED outer_vars

\* _run_ingest_with_progress after ingest_document returned: the PDF is copied to
\* docs_dir, the kept "done" message gets the filename and is put; a failure of the
\* copy puts the "error" message
ThreadEnd(copy_ok) ==
  LET done == IF result_holder # << >>
              THEN QueueItem(result_holder[1].phase,
                             [summary |-> ing_result.summary, filename |-> "upload.pdf"])
              ELSE QueueItem(NoPhase, [filename |-> "upload.pdf"])
  IN /\ ing_pc = "returned" /\ st_terminal = JNull
     /\ api_calls' = Append(api_calls, Call("copy2", IF copy_ok THEN "ok" ELSE "raised"))
     /\ st_terminal' = IF copy_ok THEN done ELSE QueueItem("error", [message |-> "copy2"])
     /\ UNCHANGED <<api_request, api_response, st_pc, st_read, st_delivered>>
     /\ UNCHANGED <<retry_vars, invocations>>
     /\ UNCHANGED engine_vars /\ UNCHANGED page_vars /\ UNCHANGED ingest_vars

\* except Exception as e: progress_queue.put({"phase": "error", "message": str(e)})
ThreadExcept ==
  /\ ing_pc = "raised" /\ st_terminal = JNull
  /\ st_terminal' = QueueItem("error", [message |-> "ingest_document"])
  /\ UNCHANGED <<st_pc, st_read, st_delivered>>
  /\ UNCHANGED <<api_vars, retry_vars, invocations>>
  /\ UNCHANGED engine_vars /\ UNCHANGED page_vars /\ UNCHANGED ingest_vars

\* _stream_sse: one turn of the loop in which q.get returns a message: the message
\* is yielded, and the loop is left after a "done" or an "error". A turn in which
\* q.get times out (the queue is empty) changes nothing and is taken again.
Deliver ==
  /\ st_pc = "streaming" /\ st_read < Len(Puts)
  /\ LET msg == Puts[st_read + 1]
     IN /\ st_delivered' = Append(st_delivered, msg)
        /\ st_pc' = IF msg.phase \in TerminalPhases THEN "closed" ELSE "streaming"
  /\ st_read' = st_read + 1
  /\ UNCHANGED st_terminal
  /\ UNCHANGED <<api_vars, retry_vars, invocations>>
  /\ UNCHANGED engine_vars /\ UNCHANGED page_vars /\ UNCHANGED ingest_vars

NextStream ==
  \/ Begin("no")
  \/ RenderFails
  \/ \E outcome \in ExtractorOutcomes : ProcessPage(outcome, "no")
  \/ Finish("no")
  \/ StoreFails
  \/ \E copy_ok \in BOOLEAN : ThreadEnd(copy_ok)
  \/ ThreadExcept
  \/ Deliver

\* the generator is polled for as long as the response is open: a message waiting
\* in the queue is taken by the next q.get
SpecStream == InitStream /\ [][NextStream]_vars /\ WF_vars(Deliver)

\* ------------------------------------------------------------------------
\* Properties of the proof engine
\* ------------------------------------------------------------------------
Asked == q_result # JNull
Answered == Asked /\ q_result.status = "answer"
Refused == Asked /\ q_result.status = "refuse"
\* the pin number the question asks for, "" when it asks for none
AskedPin == PinSearch(Strip(Lower(q_question)))

PointOfUnit(p, u) ==
  /\ p.source_type = "unit" /\ p.source_id = u.id /\ p.page = u.page
  /\ p.x = u.origin.x /\ p.y = u.origin.y

PointOfBijection(p, b) ==
  /\ p.source_type = "bijection" /\ p.source_id = b.id /\ p.page = b.page
  /\ p.x = b.origin.x /\ p.y = b.origin.y

\* the point of a cell holding the asked pin number: the cell's origin, the grid's
\* origin when the cell has none
PointOfGrid(p, g) ==
  /\ p.source_type = "grid" /\ p.source_id = g.id /\ p.page = g.page
  /\ \E k \in 1..Len(g.cells) :
       /\ Str(g.cells[k].value) = AskedPin
       /\ IF g.cells[k].origin # JNull
          THEN p.x = g.cells[k].origin.x /\ p.y = g.cells[k].origin.y
          ELSE p.x = g.origin.x /\ p.y = g.origin.y

PointOfInput(p) ==
  \/ \E k \in 1..Len(doc_units) : PointOfUnit(p, doc_units[k])
  \/ \E k \in 1..Len(doc_bijections) : PointOfBijection(p, doc_bijections[k])
  \/ \E k \in 1..Len(doc_grids) : PointOfGrid(p, doc_grids[k])

\* C2: an answer has a non-empty proof, and each proof point is the page, the origin
\* and the id and kind of one input fact (for a grid the matched cell's origin, or the
\* grid's origin when that cell has none); the answer names the same fact.
C2_ProofFromInput ==
  Answered =>
    /\ Len(q_result.proof) >= 1
    /\ \A k \in 1..Len(q_result.proof) :
         /\ PointOfInput(q_result.proof[k])
         /\ q_result.proof[k].source_id = q_result.source_id
         /\ q_result.proof[k].source_type = q_result.source_type

\* an answer of each kind of fact, the grid one from a cell without origin
C2_Witness ==
  /\ Answered /\ q_result.source_type = "grid"
  /\ Len(doc_units) = 1 /\ Len(doc_grids) = 1
  /\ q_result.proof[1].x = doc_grids[1].origin.x
  /\ \E k \in 1..Len(doc_grids[1].cells) :
       Str(doc_grids[1].cells[k].value) = AskedPin /\ doc_grids[1].cells[k].origin = JNull

C2_WitnessUnit ==
  Answered /\ q_result.source_type = "unit" /\ Len(q_result.proof) = 1

NoMatcherAnswers ==
  /\ _try_pin_lookup(q_question, doc_bijections, doc_grids) = JNull
  /\ _try_voltage_max(q_question, doc_units) = JNull
  /\ _try_max_current(q_question, doc_units) = JNull
  /\ _try_max_capacity(q_question, doc_units) = JNull
  /\ _try_unit_by_intent(q_question, doc_units) = JNull
  /\ _try_unit_lookup(q_question, doc_units) = JNull

\* C3: the result is a refusal exactly when none of the six matchers answers; every
\* refusal has the one fixed reason, which contains "canonical"; no facts, refusal.
C3_RefuseIffNoMatch ==
  Asked =>
    /\ Refused <=> NoMatcherAnswers
    /\ Refused => /\ q_result.reason = <<"N","o"," ","c","a","n","o","n","i","c","a","l"," ","f","a","c","t"," ","d","e","r","i","v","e","s"," ","t","h","i","s"," ","a","n","s","w","e","r",".">>
                  /\ Contains(<<"c","a","n","o","n","i","c","a","l">>, q_result.reason)
    /\ (doc_units = << >> /\ doc_bijections = << >> /\ doc_grids = << >>) => Refused

\* a refusal on a document that has facts, and one on a document without facts
C3_Witness ==
  /\ Refused /\ Len(doc_units) + Len(doc_bijections) + Len(doc_grids) = MaxFacts
  /\ AskedPin # << >>

C3_WitnessEmpty ==
  Refused /\ doc_units = << >> /\ doc_bijections = << >> /\ doc_grids = << >>

\* the matchers in the order of the claim
InOrder ==
  <<_try_pin_lookup(q_question, doc_bijections, doc_grids),
    _try_voltage_max(q_question, doc_units),
    _try_max_current(q_question, doc_units),
    _try_max_capacity(q_question, doc_units),
    _try_unit_by_intent(q_question, doc_units),
    _try_unit_lookup(q_question, doc_units)>>

\* C4: the result is the answer of the first matcher that answers, in the order pin
\* lookup, maximum voltage, maximum current, maximum capacity, intent, literal; when
\* pin lookup and maximum voltage both answer, the result is the pin-lookup answer.
C4_FirstMatcherWins ==
  Asked =>
    LET m == InOrder
    IN /\ \A i \in 1..6 :
            (m[i] # JNull /\ \A j \in 1..(i - 1) : m[j] = JNull) => q_result = m[i]
       /\ (m[1] # JNull /\ m[2] # JNull) => q_result = m[1]

\* pin lookup and maximum voltage both answer, with different answers
C4_Witness ==
  /\ Asked /\ InOrder[1] # JNull /\ InOrder[2] # JNull
  /\ InOrder[1] # InOrder[2] /\ q_result = InOrder[1]

HasPin(b, n) == \E k \in 1..Len(b.mapping) : b.mapping[k].k = n \/ b.mapping[k].v = n
IsKey(b, n) == \E k \in 1..Len(b.mapping) : b.mapping[k].k = n

\* the first bijection of the list that has n as a key or as a value
FirstWithPin(n) == SetMin({k \in 1..Len(doc_bijections) : HasPin(doc_bijections[k], n)})

\* C9: for a question about pin N, when some bijection has N as a key or a value the
\* answer comes from the first such bijection: mapping[N] when N is a key, otherwise
\* a key that maps to N, with that bijection's origin and page as the proof; a grid
\* answers only when no bijection has N.
C9_FirstBijection ==
  (Asked /\ AskedPin # << >>) =>
    /\ (\E k \in 1..Len(doc_bijections) : HasPin(doc_bijections[k], AskedPin)) =>
         LET b == doc_bijections[FirstWithPin(AskedPin)]
         IN /\ Answered
            /\ IF IsKey(b, AskedPin)
               THEN \E k \in 1..Len(b.mapping) :
                      b.mapping[k].k = AskedPin /\ q_result.answer = b.mapping[k].v
               ELSE \E k \in 1..Len(b.mapping) :
                      b.mapping[k].v = AskedPin /\ q_result.answer = b.mapping[k].k
            /\ Len(q_result.proof) = 1
            /\ PointOfBijection(q_result.proof[1], b)
    /\ (Answered /\ q_result.source_type = "grid") =>
         \A k \in 1..Len(doc_bijections) : ~HasPin(doc_bijections[k], AskedPin)

\* the second bijection answers because the first has the pin on neither side
C9_Witness ==
  /\ Answered /\ AskedPin # << >> /\ Len(doc_bijections) = 2
  /\ ~HasPin(doc_bijections[1], AskedPin) /\ HasPin(doc_bijections[2], AskedPin)
  /\ ~IsKey(doc_bijections[2], AskedPin)
  /\ PointOfBijection(q_result.proof[1], doc_bijections[2])

\* the first bijection answers although a later one and a grid have the pin too
C9_WitnessFirst ==
  /\ Answered /\ AskedPin # << >> /\ Len(doc_bijections) = 2
  /\ HasPin(doc_bijections[1], AskedPin) /\ HasPin(doc_bijections[2], AskedPin)
  /\ doc_bijections[1] # doc_bijections[2]

\* the first cell of g, in row-major order, whose value is n
MatchedCell(g, n) ==
  LET at == {rc \in (0..(g.rows - 1)) \X (0..(g.cols - 1)) :
               \E k \in 1..Len(g.cells) :
                 g.cells[k].row = rc[1] /\ g.cells[k].col = rc[2]
                 /\ get_cell(g, rc[1], rc[2]) = g.cells[k] /\ Str(g.cells[k].value) = n}
  IN CHOOSE rc \in at : \A o \in at : rc[1] < o[1] \/ (rc[1] = o[1] /\ rc[2] <= o[2])

HasCell(g, row, col) == \E k \in 1..Len(g.cells) : g.cells[k].row = row /\ g.cells[k].col = col

\* the grid that answered: the first one with a cell whose value is n
AnsweringGrid(n) ==
  doc_grids[SetMin({k \in 1..Len(doc_grids) :
                      \E c \in 1..Len(doc_grids[k].cells) : Str(doc_grids[k].cells[c].value) = n})]

\* C10: a pin answer from a grid is the value of the cell next to the matched cell in
\* its row, the one at col+1 when there is one, else the one at col-1; it is the
\* value of a neighbour, never the matched cell's own value.
C10_AdjacentCell ==
  (Answered /\ q_result.source_type = "grid") =>
    LET g == AnsweringGrid(AskedPin)
        rc == MatchedCell(g, AskedPin)
    IN IF rc[2] + 1 < g.cols /\ HasCell(g, rc[1], rc[2] + 1)
       THEN q_result.answer = Str(get_cell(g, rc[1], rc[2] + 1).value)
       ELSE /\ rc[2] > 0 /\ HasCell(g, rc[1], rc[2] - 1)
            /\ q_result.answer = Str(get_cell(g, rc[1], rc[2] - 1).value)

\* ------------------------------------------------------------------------
\* Properties of the page path
\* ------------------------------------------------------------------------
Canonicalized == pg_pc = "canonical"
FromRaw == pg_raw # JNull
RawList(name) == IF Get(pg_raw, name).t = "list" THEN Get(pg_raw, name).l ELSE << >>

GoodUnits == SelectSeq(pg_extraction.units, LAMBDA e : UnitOk(e, pg_doc, pg_index))
GoodBijections == SelectSeq(pg_extraction.bijections, LAMBDA e : BijectionOk(e, pg_doc, pg_index))
GoodGrids == SelectSeq(pg_extraction.grids, LAMBDA e : GridOk(e, pg_doc, pg_index))

\* fact f is candidate e, stamped
Produced(f, e, kind) ==
  /\ f.kind = kind /\ f.id = e.id.s
  /\ f.origin.x = e.origin.x /\ f.origin.y = e.origin.y
  /\ f.doc_id = pg_doc /\ f.page = pg_index

\* C6: canonicalize_page returns a list whatever the candidates: one fact for each
\* candidate whose construction succeeds, none for the others; units first, then
\* bijections, then grids, each in input order; each fact has the given doc_id and page.
C6_SkipOnlyFailing ==
  Canonicalized =>
    /\ Len(pg_facts) = Len(GoodUnits) + Len(GoodBijections) + Len(GoodGrids)
    /\ \A k \in 1..Len(GoodUnits) : Produced(pg_facts[k], GoodUnits[k], "unit")
    /\ \A k \in 1..Len(GoodBijections) :
         Produced(pg_facts[Len(GoodUnits) + k], GoodBijections[k], "bijection")
    /\ \A k \in 1..Len(GoodGrids) :
         Produced(pg_facts[Len(GoodUnits) + Len(GoodBijections) + k], GoodGrids[k], "grid")

\* a unit whose construction fails (no origin) before a well-formed one
C6_Witness ==
  /\ Canonicalized /\ ~FromRaw
  /\ Len(pg_extraction.units) = 2
  /\ pg_extraction.units[1].origin = JNull
  /\ Len(pg_facts) = 1 /\ pg_facts[1].id = pg_extraction.units[2].id.s
  /\ pg_doc = "docB" /\ pg_index = 1

\* a well-formed unit and a well-formed grid: the unit comes first
C6_WitnessOrder ==
  /\ Canonicalized /\ Len(pg_facts) = 2
  /\ pg_facts[1].kind = "unit" /\ pg_facts[2].kind = "grid"

\* the raw entry alone is well-formed: it normalizes to an entry the schema accepts
WellFormedUnit(r, k) ==
  /\ _normalize_unit_item(r, PagePrefix(pg_index), k - 1) # JNull
  /\ UnitExtractOk(_normalize_unit_item(r, PagePrefix(pg_index), k - 1))
WellFormedBijection(r, k) ==
  /\ _normalize_bijection_item(r, PagePrefix(pg_index), k - 1) # JNull
  /\ BijectionExtractOk(_normalize_bijection_item(r, PagePrefix(pg_index), k - 1))
WellFormedGrid(r, k) ==
  /\ _normalize_grid_item(r, PagePrefix(pg_index), k - 1) # JNull
  /\ GridExtractOk(_normalize_grid_item(r, PagePrefix(pg_index), k - 1))

HasFact(kind, id) == \E j \in 1..Len(pg_facts) : pg_facts[j].kind = kind /\ pg_facts[j].id = id.s

\* C7: on the path normalize, validate, canonicalize, every well-formed entry of the
\* raw response is among the canonical facts of the page, whatever the other entries.
C7_MalformedRemovesOnlyItself ==
  (Canonicalized /\ FromRaw) =>
    /\ \A k \in 1..Len(RawList("units")) :
         WellFormedUnit(RawList("units")[k], k) =>
           HasFact("unit", _normalize_unit_item(RawList("units")[k], PagePrefix(pg_index), k - 1).id)
    /\ \A k \in 1..Len(RawList("bijections")) :
         WellFormedBijection(RawList("bijections")[k], k) =>
           HasFact("bijection",
                   _normalize_bijection_item(RawList("bijections")[k], PagePrefix(pg_index), k - 1).id)
    /\ \A k \in 1..Len(RawList("grids")) :
         WellFormedGrid(RawList("grids")[k], k) =>
           HasFact("grid", _normalize_grid_item(RawList("grids")[k], PagePrefix(pg_index), k - 1).id)

\* the kept entry e comes from raw entry k, whose own origin coerces to e's origin
OwnOrigin(e, r, k, letter) ==
  /\ r.t = "map"
  /\ e.id = EntryId(r, PagePrefix(pg_index), letter, k - 1)
  /\ _normalize_origin(Get(r, "origin")) # JNull
  /\ e.origin = _normalize_origin(Get(r, "origin"))

\* C8: every unit, bijection and grid the normalizer keeps has the origin coerced from
\* the origin field of its own raw entry; no entry is kept whose raw origin is absent
\* or not coercible.
C8_OriginFromRaw ==
  (pg_pc = "extracted" /\ FromRaw) =>
    /\ \A j \in 1..Len(pg_norm.units) :
         \E k \in 1..Len(RawList("units")) :
           OwnOrigin(pg_norm.units[j], RawList("units")[k], k, <<"u">>)
    /\ \A j \in 1..Len(pg_norm.bijections) :
         \E k \in 1..Len(RawList("bijections")) :
           OwnOrigin(pg_norm.bijections[j], RawList("bijections")[k], k, <<"b">>)
    /\ \A j \in 1..Len(pg_norm.grids) :
         \E k \in 1..Len(RawList("grids")) :
           OwnOrigin(pg_norm.grids[j], RawList("grids")[k], k, <<"g">>)

\* ------------------------------------------------------------------------
\* Properties of ingest_document
\* ------------------------------------------------------------------------
Returned == ing_pc = "returned"
\* a call of the progress observer raised
ObserverRaised == \E k \in 1..Len(ing_outcomes) : ing_outcomes[k].fail # "no"
\* the steps of the pages, in the order they were taken
PageSteps == SelectSeq(ing_outcomes, LAMBDA o : o.page # NoPage)
ExtractionRaised(o) == o.outcome \in {"rate_limit", "error"}

\* the canonical facts of the pages whose extraction returned, in page order
FactsOfSucceeded ==
  Flatten([k \in 1..Len(PageSteps) |->
             IF ExtractionRaised(PageSteps[k]) THEN << >>
             ELSE canonicalize_page(ExtractionOf(PageSteps[k].outcome, PageSteps[k].page),
                                    ing_cfg.doc_id, PageSteps[k].page)])

\* C5: whatever the rendered pages and whichever of them have an extraction that
\* raises, ingest_document of an existing PDF returns (the progress observer, if any,
\* returning normally): the facts returned are the canonical facts of the pages whose
\* extraction returned, in page order, and pages_failed is the number of pages whose
\* extraction raised.
C5_PartialFailure ==
  /\ (ing_pc = "raised") => (~ing_cfg.pdf_exists \/ ObserverRaised)
  /\ (Returned /\ ~ObserverRaised) =>
       /\ [k \in 1..Len(PageSteps) |-> PageSteps[k].page] = ing_pages
       /\ ing_result.facts = FactsOfSucceeded
       /\ ing_result.pages_failed =
            Cardinality({k \in 1..Len(PageSteps) : ExtractionRaised(PageSteps[k])})
       /\ ing_result.total_pages = Len(ing_pages)

\* the extraction of the second of three pages raises: the facts of the first and the
\* third page are returned
C5_Witness ==
  /\ Returned /\ ~ObserverRaised /\ Len(ing_pages) = 3
  /\ ~ExtractionRaised(PageSteps[1]) /\ ExtractionRaised(PageSteps[2])
  /\ PageSteps[3].outcome = "facts" /\ PageSteps[1].outcome = "facts"
  /\ ing_result.pages_failed = 1
  /\ \E k \in 1..Len(ing_result.facts) : ing_result.facts[k].page = ing_pages[3]
  /\ \E k \in 1..Len(ing_result.facts) : ing_result.facts[k].page = ing_pages[1]
  /\ \A k \in 1..Len(ing_result.facts) : ing_result.facts[k].page # ing_pages[2]

\* ------------------------------------------------------------------------
\* C11, C12: the maximum rules
\* ------------------------------------------------------------------------
RuleAnswered(op) == q_op = op /\ q_result # JNull

\* the number a text starts with (digits and an optional fraction), or NotANumber
LeadingNumber(s) ==
  LET Upto(e1) ==
        IF e1 + 1 <= Len(s) /\ s[e1] = "." /\ IsDigit(s[e1 + 1])
        THEN DigitRunEnd(s, e1 + 1) ELSE e1
      Of(e) == FloatOf(SubSeq(s, 1, e - 1))
  IN Of(Upto(DigitRunEnd(s, 1)))

\* the numeric value of a unit whose unit of measure is one of names, or NotANumber
StructuredValue(u, names) == IF UomIn(u, names) THEN Float(u.value) ELSE NotANumber

HasStructured(units, names) ==
  \E i \in 1..Len(units) : StructuredValue(units[i], names) # NotANumber

StructuredValues(u, names) == {StructuredValue(u, names)} \ {NotANumber}

ParsedVoltages(u) ==
  LET Vals(ps) == {ps[k].val : k \in 1..Len(ps)}
  IN Vals(_parse_voltage_from_text(_get_unit_text(u)))

\* the voltage values unit i contributes to the maximum
VoltageCandidates(units, i) ==
  IF HasStructured(units, VoltageUoms) THEN StructuredValues(units[i], VoltageUoms)
  ELSE ParsedVoltages(units[i])

GreatestVoltage(units) ==
  SetMax(UNION {VoltageCandidates(units, i) : i \in 1..Len(units)})

\* the first unit, in list order, that has the greatest voltage among the candidates
FirstGreatestVoltage(units) ==
  SetMin({i \in 1..Len(units) : GreatestVoltage(units) \in VoltageCandidates(units, i)})

CitesUnit(u) ==
  /\ Len(q_result.proof) = 1
  /\ q_result.proof[1].source_id = u.id /\ q_result.source_id = u.id
  /\ q_result.proof[1].x = u.origin.x /\ q_result.proof[1].y = u.origin.y
  /\ q_result.proof[1].page = u.page

\* the part of C11 about the cited unit: a candidate with the greatest value, the
\* first of them in list order
C11_CitesFirstGreatest ==
  RuleAnswered("_try_voltage_max") => CitesUnit(doc_units[FirstGreatestVoltage(doc_units)])

\* C11: when the maximum-voltage rule answers, its single proof point cites the first
\* unit in list order among the candidates with the greatest voltage value, and the
\* answer text reports that greatest value.
C11_MaxVoltage ==
  RuleAnswered("_try_voltage_max") =>
    /\ CitesUnit(doc_units[FirstGreatestVoltage(doc_units)])
    /\ LeadingNumber(q_result.answer) = GreatestVoltage(doc_units)

\* two distinct units tie for the greatest voltage and the first one is cited
C11_TieReached ==
  /\ RuleAnswered("_try_voltage_max") /\ Len(doc_units) = 2
  /\ doc_units[1].id # doc_units[2].id
  /\ VoltageCandidates(doc_units, 1) = VoltageCandidates(doc_units, 2)
  /\ q_result.source_id = doc_units[1].id

GreatestStructured(units, names) ==
  SetMax(UNION {StructuredValues(units[i], names) : i \in 1..Len(units)})

PrefersStructured(op, names) ==
  (RuleAnswered(op) /\ HasStructured(doc_units, names)) =>
    /\ \E i \in 1..Len(doc_units) :
         /\ GreatestStructured(doc_units, names) \in StructuredValues(doc_units[i], names)
         /\ CitesUnit(doc_units[i])
    /\ LeadingNumber(q_result.answer) = GreatestStructured(doc_units, names)

\* C12: each of the three maximum rules prefers structurally typed units: when some
\* unit has a matching unit of measure and a numeric value, the maximum is taken over
\* such units only, and values parsed from text are not candidates.
C12_PrefersStructured ==
  /\ PrefersStructured("_try_voltage_max", VoltageUoms)
  /\ PrefersStructured("_try_max_current", CurrentUoms)
  /\ PrefersStructured("_try_max_capacity", CapacityUoms)

\* the maximum-voltage rule alone does prefer structured units
C12_VoltagePrefersStructured == PrefersStructured("_try_voltage_max", VoltageUoms)

\* a structured voltage is answered although a greater voltage is written in a text
C12_VoltageReached ==
  /\ RuleAnswered("_try_voltage_max") /\ HasStructured(doc_units, VoltageUoms)
  /\ \E i \in 1..Len(doc_units) :
       \E v \in ParsedVoltages(doc_units[i]) : v > GreatestStructured(doc_units, VoltageUoms)

\* ------------------------------------------------------------------------
\* C13: Bijection round trip
\* ------------------------------------------------------------------------
\* no two keys of the mapping have the same value
OneToOne(b) ==
  \A i, j \in 1..Len(b.mapping) : b.mapping[i].v = b.mapping[j].v => i = j

KeyAt(b, i) == b.mapping[i].k
ValueAt(b, i) == b.mapping[i].v

\* C13: for a Bijection b whose mapping has no two keys with the same value and every
\* key k of b.mapping, b.get_right(k) is b.mapping[k] and b.get_left(b.mapping[k]) is k;
\* a key or value absent from the mapping gives null.
C13_RoundTrip ==
  LET b == doc_bijections[1]
  IN (q_op \in {"get_right", "get_left", "round_trip"} /\ OneToOne(b)) =>
       /\ q_op = "get_right" =>
            /\ \A i \in 1..Len(b.mapping) :
                 q_question = KeyAt(b, i) => q_result = JStr(ValueAt(b, i))
            /\ (\A i \in 1..Len(b.mapping) : q_question # KeyAt(b, i)) => q_result = JNull
       /\ q_op = "get_left" =>
            /\ \A i \in 1..Len(b.mapping) :
                 q_question = ValueAt(b, i) => q_result = JStr(KeyAt(b, i))
            /\ (\A i \in 1..Len(b.mapping) : q_question # ValueAt(b, i)) => q_result = JNull
       /\ q_op = "round_trip" => q_result = JStr(q_question)

\* the second key of a one-to-one mapping of two items comes back from the round trip
C13_Witness ==
  /\ q_op = "round_trip" /\ Len(doc_bijections[1].mapping) = 2
  /\ OneToOne(doc_bijections[1])
  /\ q_question = KeyAt(doc_bijections[1], 2)
  /\ q_result = JStr(q_question)

\* with two keys of the same value the round trip of the first key gives the second
C13_DuplicateValueReached ==
  /\ q_op = "round_trip" /\ ~OneToOne(doc_bijections[1])
  /\ q_result # JStr(q_question)

\* ------------------------------------------------------------------------
\* C14: canonical bijections are one to one
\* ------------------------------------------------------------------------
\* C14: every canonical Bijection produced by normalize, validate and canonicalize is a
\* strict 1:1 mapping: no two keys of its mapping have the same value.
C14_StrictOneToOne ==
  (Canonicalized /\ FromRaw) =>
    \A j \in 1..Len(pg_facts) : pg_facts[j].kind = "bijection" => OneToOne(pg_facts[j])

\* ------------------------------------------------------------------------
\* C15: the ids of one normalized page
\* ------------------------------------------------------------------------
Normalized == FromRaw /\ pg_pc \in {"extracted", "canonical"}

DistinctIds(entries) ==
  \A i, j \in 1..Len(entries) : entries[i].id = entries[j].id => i = j

\* C15: after normalization of one page the ids of the surviving units are pairwise
\* distinct, likewise the surviving bijections and the surviving grids, whatever mix of
\* provided and synthesized ids the page has.
C15_DistinctIds ==
  Normalized =>
    /\ DistinctIds(pg_norm.units)
    /\ DistinctIds(pg_norm.bijections)
    /\ DistinctIds(pg_norm.grids)

\* the provided ids of the raw entries of a list that are non-blank strings
ProvidedIds(name) ==
  {k \in 1..Len(RawList(name)) : IsNonBlankStr(Get(RawList(name)[k], "id"))}

\* the ids provided by the response are pairwise distinct, and a synthesized id is
\* equal to one of them
C15_SynthesizedCollides ==
  /\ Normalized /\ ~DistinctIds(pg_norm.units)
  /\ \A i, j \in ProvidedIds("units") :
       Get(RawList("units")[i], "id") = Get(RawList("units")[j], "id") => i = j

\* ------------------------------------------------------------------------
\* C16: the normalizer never raises
\* ------------------------------------------------------------------------
NormalizerLeft == FromRaw /\ pg_pc \in {"extracted", "canonical", "raised"}

IsList(v) == DOMAIN v = 1..Len(v)

\* C16: for every raw input the normalizer returns, without raising, a structure whose
\* units, bijections and grids are each a list.
C16_NeverRaises ==
  NormalizerLeft =>
    /\ ~IsRaised(pg_norm)
    /\ DOMAIN pg_norm = {"units", "bijections", "grids"}
    /\ IsList(pg_norm.units) /\ IsList(pg_norm.bijections) /\ IsList(pg_norm.grids)

\* inputs that are not of the expected shape are normalized to three lists
C16_MalformedReached ==
  /\ NormalizerLeft /\ ~IsRaised(pg_norm)
  /\ pg_raw.t # "map" \/ Get(pg_raw, "units").t # "list"
  /\ pg_norm.units = << >> /\ IsList(pg_norm.grids)
\* ------------------------------------------------------------------------
\* C17, C18: the order of the steps of ingest_document
\* ------------------------------------------------------------------------
\* the calls of the extractor, in the order they were made
ExtractCalls == SelectSeq(ing_trace, LAMBDA e : e.ev = "extract")
\* the positions of the log that belong to a page
PageEvents(page) == {a \in 1..Len(ing_trace) : ing_trace[a].page = page}

\* C17: the extractor is called once for each rendered page, in increasing page order:
\* at every moment the calls made are the first pages of the rendered list, in the
\* order of the list, a run that returns has called it for all of them, and the
\* steps of a page (delay, extraction, canonicalization, cooldown) are all logged
\* before the first step of the next page.
C17_OnePageAtATime ==
  /\ [k \in 1..Len(ExtractCalls) |-> ExtractCalls[k].page] = SubSeq(ing_pages, 1, ing_i)
  /\ Returned => ing_i = Len(ing_pages)
  /\ \A k \in 1..(Len(ExtractCalls) - 1) : ExtractCalls[k].page < ExtractCalls[k + 1].page
  /\ \A a, b \in 1..Len(ing_trace) :
       (a < b /\ ing_trace[a].page # NoPage /\ ing_trace[b].page # NoPage)
         => ing_trace[a].page <= ing_trace[b].page

\* three pages were extracted one after the other, the second
\* one failing with a rate limit and the cooldown being slept before the third
C17_Witness ==
  /\ Returned /\ Len(ing_pages) = 3 /\ Len(ExtractCalls) = 3
  /\ ExtractCalls[1].page < ExtractCalls[2].page /\ ExtractCalls[2].page < ExtractCalls[3].page
  /\ \E a \in PageEvents(ing_pages[2]) : ing_trace[a] = Event("sleep", "cooldown", ing_pages[2])
  /\ \E a \in PageEvents(ing_pages[3]) : ing_trace[a].ev = "progress"
\* the positions of the log where a sleep of a kind is taken for a page
SleepsOf(kind, page) ==
  {a \in 1..Len(ing_trace) : ing_trace[a] = Event("sleep", kind, page)}

\* C18: the inter-page delay (when one is configured) is slept once before every
\* page but the first, after every step of the page before and before any other step
\* of the page; the cooldown is slept only after the extraction of the page failed
\* with an error classified as a rate limit, never after an extraction that returned or
\* raised another error (the progress observer, if any, returning normally on the page).
C18_Sleeps ==
  \A k \in 1..Len(PageSteps) :
    LET page == PageSteps[k].page
        delays == SleepsOf("page_delay", page)
        cooldowns == SleepsOf("cooldown", page)
    IN /\ Cardinality(delays) = IF k > 1 /\ ing_cfg.page_delay > 0 THEN 1 ELSE 0
       /\ \A a \in delays :
            /\ \A b \in PageEvents(page) : a <= b
            /\ \A b \in PageEvents(PageSteps[k - 1].page) : b < a
       /\ PageSteps[k].fail = "no" =>
            /\ Cardinality(cooldowns) =
                 IF PageSteps[k].outcome = "rate_limit" /\ ing_cfg.cooldown > 0 THEN 1 ELSE 0
            /\ \A a \in cooldowns : \A b \in PageEvents(page) : b <= a

\* a run of three pages with both sleeps configured: no delay before the first page,
\* a delay before the second and the third, a cooldown after the rate-limited second
\* page and none after the third, whose extraction raised another error
C18_Witness ==
  /\ Returned /\ ~ObserverRaised /\ Len(PageSteps) = 3
  /\ ing_cfg.page_delay > 0 /\ ing_cfg.cooldown > 0
  /\ PageSteps[1].outcome = "facts" /\ PageSteps[2].outcome = "rate_limit"
  /\ PageSteps[3].outcome = "error"
  /\ SleepsOf("page_delay", PageSteps[1].page) = {}
  /\ SleepsOf("page_delay", PageSteps[2].page) # {}
  /\ SleepsOf("page_delay", PageSteps[3].page) # {}
  /\ SleepsOf("cooldown", PageSteps[2].page) # {}
  /\ SleepsOf("cooldown", PageSteps[3].page) = {}
\* ------------------------------------------------------------------------
\* C19: the flags of the summary
\* ------------------------------------------------------------------------
\* C19: the summary of a run that returns carries the warning whenever no fact was
\* produced, and the note whenever some but not all of the pages failed.
C19_SummaryFlags ==
  Returned =>
    /\ (Len(ing_result.facts) = 0) => ing_result.summary.extraction_warning
    /\ (0 < ing_result.pages_failed /\ ing_result.pages_failed < ing_result.total_pages)
         => ing_result.summary.extraction_note

\* the extraction of one page raised and the other pages gave no fact: the summary
\* carries the warning and not the note
C19_FailedAndEmptyReached ==
  /\ Returned /\ ~ObserverRaised
  /\ 0 < ing_result.pages_failed /\ ing_result.pages_failed < ing_result.total_pages
  /\ Len(ing_result.facts) = 0
  /\ ing_result.summary.extraction_warning /\ ~ing_result.summary.extraction_note
\* ------------------------------------------------------------------------
\* C20: the progress observer
\* ------------------------------------------------------------------------
\* what ingest_document returns for the same pages and the same outcomes of the
\* extractor when no observer is attached
WithoutObserver ==
  [facts |-> FactsOfSucceeded, total_pages |-> Len(ing_pages),
   pages_failed |-> Cardinality({k \in 1..Len(PageSteps) : ExtractionRaised(PageSteps[k])})]

\* C20: the progress observer has no effect on the run: whatever it does when called,
\* a run over an existing PDF does not end with an exception, and a run that returns
\* returns the facts, the page count and the failed-page count of the run without
\* an observer.
C20_ObserverHasNoEffect ==
  /\ (ing_pc = "raised") => ~ing_cfg.pdf_exists
  /\ Returned =>
       /\ Len(PageSteps) = Len(ing_pages)
       /\ ing_result.facts = WithoutObserver.facts
       /\ ing_result.total_pages = WithoutObserver.total_pages
       /\ ing_result.pages_failed = WithoutObserver.pages_failed

\* an observer that raises when told a page is being extracted ends the run with
\* that exception, pages left unprocessed
C20_ObserverAborts ==
  /\ ing_pc = "raised" /\ ing_cfg.pdf_exists /\ ing_cfg.observer = "faulty"
  /\ Len(PageSteps) > 0 /\ PageSteps[Len(PageSteps)].fail = "extracting"
  /\ ing_i < Len(ing_pages)

\* an observer that raises when told a page is being canonicalized makes a page
\* whose extraction returned facts count as failed, and its facts are not returned
C20_ObserverDropsPage ==
  /\ Returned /\ ing_cfg.observer = "faulty"
  /\ \E k \in 1..Len(PageSteps) :
       PageSteps[k].outcome = "facts" /\ PageSteps[k].fail = "canonicalizing"
  /\ ing_result.pages_failed > WithoutObserver.pages_failed
  /\ Len(ing_result.facts) < Len(WithoutObserver.facts)
\* ------------------------------------------------------------------------
\* C21: the progress events of one run
\* ------------------------------------------------------------------------
\* the messages given to the progress observer, in the order it was called
ProgressEvents == SelectSeq(ing_trace, LAMBDA e : e.ev = "progress")
\* the place of a phase in the documented order
PhaseRank(phase) ==
  CASE phase = "rendering" -> 0
    [] phase = "rendering_done" -> 1
    [] phase \in {"extracting", "canonicalizing"} -> 2
    [] phase = "storing" -> 3
    [] phase = "done" -> 4
PhaseCount(phase, page) ==
  Cardinality({a \in 1..Len(ProgressEvents) : ProgressEvents[a] = Event("progress", phase, page)})
\* the extraction of a page returned
ExtractionReturned(page) ==
  \E k \in 1..Len(PageSteps) :
    /\ PageSteps[k].page = page /\ ~ExtractionRaised(PageSteps[k])
    /\ PageSteps[k].fail # "extracting"

\* C21: the progress events are emitted in the order rendering, rendering_done, the
\* events of the pages in page order (extracting, then canonicalizing only when the
\* extraction of the page returned), storing when a store is given, done; no event is
\* emitted twice and done is the last one. A run that returns with an observer
\* attached has emitted all of them, and the counts of its done message are those of
\* the facts and the failed pages it returns.
C21_ProgressOrder ==
  LET evs == ProgressEvents
  IN /\ \A a, b \in 1..Len(evs) :
          a < b =>
            /\ PhaseRank(evs[a].phase) <= PhaseRank(evs[b].phase)
            /\ evs[a] # evs[b]
            /\ (evs[a].page # NoPage /\ evs[b].page # NoPage) =>
                 \/ evs[a].page < evs[b].page
                 \/ /\ evs[a].page = evs[b].page
                    /\ evs[a].phase = "extracting" /\ evs[b].phase = "canonicalizing"
     /\ \A a \in 1..Len(evs) :
          /\ evs[a].phase = "canonicalizing" =>
               /\ ExtractionReturned(evs[a].page)
               /\ PhaseCount("extracting", evs[a].page) = 1
          /\ evs[a].phase = "storing" => ing_cfg.store
          /\ evs[a].phase = "done" => a = Len(evs)
     /\ (ing_cfg.observer = "none") => evs = << >>
     /\ (Returned /\ ing_cfg.observer # "none") =>
          /\ PhaseCount("rendering", NoPage) = 1 /\ PhaseCount("rendering_done", NoPage) = 1
          /\ \A k \in 1..Len(ing_pages) :
               /\ PhaseCount("extracting", ing_pages[k]) = 1
               /\ PhaseCount("canonicalizing", ing_pages[k]) =
                    IF ExtractionReturned(ing_pages[k]) THEN 1 ELSE 0
          /\ PhaseCount("storing", NoPage) = IF ing_cfg.store THEN 1 ELSE 0
          /\ PhaseCount("done", NoPage) = 1
     /\ Returned =>
          /\ ing_result.summary.units_count = Len(OfKind(ing_result.facts, "unit"))
          /\ ing_result.summary.bijections_count = Len(OfKind(ing_result.facts, "bijection"))
          /\ ing_result.summary.grids_count = Len(OfKind(ing_result.facts, "grid"))
          /\ ing_result.summary.pages_failed = ing_result.pages_failed
          /\ ing_result.summary.total_pages = ing_result.total_pages

\* a run over three pages with a store and an observer: the extraction of the second
\* page raised, so the observer saw eight events before storing and done, and the done
\* message counts facts of more than one kind
C21_Witness ==
  /\ Returned /\ ing_cfg.observer = "ok" /\ ing_cfg.store /\ Len(ing_pages) = 3
  /\ ExtractionRaised(PageSteps[2]) /\ PageSteps[1].outcome = "facts"
  /\ PageSteps[3].outcome = "facts"
  /\ Len(ProgressEvents) = 9
  /\ ProgressEvents[9].phase = "done" /\ ProgressEvents[8].phase = "storing"
  /\ ing_result.summary.units_count > 0 /\ ing_result.summary.bijections_count > 0
  /\ ing_result.summary.pages_failed = 1
\* ------------------------------------------------------------------------
\* C22: the intent-scored unit match
\* ------------------------------------------------------------------------
\* the scores a unit gets for a question: the keyword overlap plus 10 for a structured
\* value of a wanted quantity class, plus 5 for a value parsed from the unit's text
IntentScores(q, u) ==
  LET ql == Strip(Lower(q))
      text == _get_unit_text(u)
      overlap == keyword_overlap(question_words(ql), Lower(text))
      Class(wanted, names, parsed) ==
        IF ~wanted THEN {}
        ELSE (IF UomIn(u, names) /\ Float(u.value) # NotANumber THEN {overlap + 10} ELSE {})
             \cup (IF Len(parsed) > 0 THEN {overlap + 5} ELSE {})
  IN Class(wants_voltage(ql), VoltageUoms, _parse_voltage_from_text(text))
     \cup Class(wants_current(ql), CurrentUoms, _parse_current_from_text(text))
     \cup Class(wants_capacity(ql), CapacityUoms, _parse_capacity_from_text(text))

\* the units that are candidates with the highest score of the document
TopScored(q, units) ==
  LET all == UNION {IntentScores(q, units[i]) : i \in 1..Len(units)}
  IN {i \in 1..Len(units) : all # {} /\ SetMax(all) \in IntentScores(q, units[i])}

\* top to bottom, then left to right
ReadsBefore(u, v) ==
  \/ u.origin.y < v.origin.y
  \/ u.origin.y = v.origin.y /\ u.origin.x <= v.origin.x

\* C22: the unit the intent-scored match answers with has the highest score, and
\* among the units with the highest score it is the first in top-to-bottom,
\* left-to-right order of the origins.
C22_TieBreak ==
  RuleAnswered("_try_unit_by_intent") =>
    \E i \in TopScored(q_question, doc_units) :
      /\ CitesUnit(doc_units[i])
      /\ \A j \in TopScored(q_question, doc_units) : ReadsBefore(doc_units[i], doc_units[j])

\* the unit answered with has the highest score
C22_HighestScore ==
  RuleAnswered("_try_unit_by_intent") =>
    \E i \in TopScored(q_question, doc_units) : CitesUnit(doc_units[i])

\* two units with the same highest score and different origins: the answer cites the
\* lower one
C22_LowerChosen ==
  /\ RuleAnswered("_try_unit_by_intent") /\ Len(doc_units) = 2
  /\ TopScored(q_question, doc_units) = {1, 2}
  /\ doc_units[1].origin.y < doc_units[2].origin.y
  /\ CitesUnit(doc_units[2]) /\ ~CitesUnit(doc_units[1])
\* ------------------------------------------------------------------------
\* C23: the phrasing collaborator and the result of /query
\* ------------------------------------------------------------------------
QueryAnswered == api_request # JNull /\ api_request.endpoint = "query"
\* the phrasing collaborator was called
PhrasingCalled == \E k \in 1..Len(api_calls) : api_calls[k].name = "format_answer"
PhrasingEnded(outcome) ==
  \E k \in 1..Len(api_calls) : api_calls[k] = Call("format_answer", outcome)
AuthoritativeFields == {"status", "answer", "proof", "source_id", "source_type"}

C23_WitnessTimeout ==
  /\ QueryAnswered /\ PhrasingEnded("timeout")
  /\ api_response.content.status = "answer" /\ Len(api_response.content.proof) > 0
  /\ api_response.content.formatted_answer = JNull
\* ------------------------------------------------------------------------
\* C24: two invocations of ingest_document
\* ------------------------------------------------------------------------
\* what the invocation returns when it runs alone over its pages with the same
\* outcomes of the extractor
ReturnedAlone(my) ==
  [doc_id |-> my.doc_id,
   facts |-> Flatten([j \in 1..Len(my.pages) |->
                        IF my.outcomes[j] = "error" THEN << >>
                        ELSE canonicalize_page(ExtractionOf(my.outcomes[j], my.pages[j]),
                                               my.doc_id, my.pages[j])]),
   total_pages |-> Len(my.pages),
   pages_failed |-> Cardinality({j \in 1..Len(my.pages) : my.outcomes[j] = "error"})]

\* C24: however the steps of two invocations for different documents interleave, each
\* returns what it returns alone: every fact it returns bears its own doc_id, and
\* neither the facts nor the failed-page count of the other invocation are in its
\* result.
C24_Isolated ==
  \A k \in DOMAIN invocations :
    invocations[k].pc = "returned" =>
      /\ invocations[k].result = ReturnedAlone(invocations[k])
      /\ \A j \in 1..Len(invocations[k].result.facts) :
           invocations[k].result.facts[j].doc_id = DocIdOf(k)
\* the first invocation returns the facts of one page and one failed page while the
\* second is in the middle of its second page, the facts of its first page accumulated
C24_Witness ==
  /\ invocations # << >>
  /\ invocations[1].pc = "returned" /\ invocations[1].result.total_pages = 2
  /\ invocations[1].result.pages_failed = 1 /\ Len(invocations[1].result.facts) > 0
  /\ invocations[2].pc = "extend" /\ invocations[2].i = 1
  /\ Len(invocations[2].all_canonical) > 0 /\ Len(invocations[2].canonical) > 0
\* ------------------------------------------------------------------------
\* C25: the doc_id of the document endpoints
\* ------------------------------------------------------------------------
DocumentAnswered ==
  /\ api_request # JNull
  /\ api_request.endpoint \in {"delete_document", "get_document_file", "get_canonical"}
\* the doc_id is one or more of the characters a-z, A-Z, 0-9, _ and -
WellFormedDocId(doc_id) == Len(doc_id) > 0 /\ \A i \in 1..Len(doc_id) : IsIdChar(doc_id[i])

\* C25: a request to a document endpoint whose doc_id does not match [a-zA-Z0-9_-]+
\* is answered 400 "Invalid doc_id" before the store or the filesystem is touched.
C25_InvalidRejected ==
  (DocumentAnswered /\ ~WellFormedDocId(api_request.doc_id)) =>
    api_response = InvalidDocId /\ api_calls = << >>

\* the same for the doc_ids the test suite uses, which hold no newline
C25_InvalidRejectedOneLine ==
  (/\ DocumentAnswered /\ ~WellFormedDocId(api_request.doc_id)
   /\ api_request.endpoint # "get_canonical"
   /\ \A i \in 1..Len(api_request.doc_id) : api_request.doc_id[i] # "\n") =>
    api_response = InvalidDocId /\ api_calls = << >>

\* get_canonical reads the store for a doc_id with a space
C25_CanonicalReadsStore ==
  /\ DocumentAnswered /\ api_request.endpoint = "get_canonical"
  /\ api_request.doc_id = <<"a", " ">>
  /\ api_response.status_code = 200 /\ Len(api_calls) = 3

\* delete_document deletes for a doc_id that ends with a newline
C25_NewlineAccepted ==
  /\ DocumentAnswered /\ api_request.endpoint = "delete_document"
  /\ api_request.doc_id = <<"a", "\n">>
  /\ api_response.status_code = 200
  /\ \E k \in 1..Len(api_calls) : api_calls[k].name = "dest.unlink"
\* ------------------------------------------------------------------------
\* C26: the attempts of extract_page
\* ------------------------------------------------------------------------
\* the calls of the model, in order
ModelCalls == SelectSeq(rt_log, LAMBDA e : e.ev = "call")
CallsOf(attempt) == Len(SelectSeq(ModelCalls, LAMBDA e : e.attempt = attempt))
RetryEnded == rt_pc \in {"returned", "raised"}
\* the error of a call was given to the handler of the attempt
Handled(e) == e.ev = "call" /\ e.outcome \in {"rate_limit", "error"}

\* what follows an error in the log: after a rate-limit error that is not on the last
\* attempt the sleep of backoff_base * 2^attempt and the next attempt, after any other
\* error and after a rate-limit error on the last attempt nothing, the call having
\* raised
RetryDiscipline ==
  \A a \in 1..Len(rt_log) :
    Handled(rt_log[a]) =>
      IF rt_log[a].outcome = "rate_limit" /\ rt_log[a].attempt < rt_cfg.max_retries - 1
      THEN /\ a < Len(rt_log)
           /\ rt_log[a + 1] = Slept(rt_log[a].attempt,
                                    rt_cfg.backoff_base * (2 ^ rt_log[a].attempt))
           /\ a + 1 < Len(rt_log) => rt_log[a + 2].attempt = rt_log[a].attempt + 1
           /\ a + 1 = Len(rt_log) => rt_pc = "call" /\ rt_attempt = rt_log[a].attempt + 1
      ELSE a = Len(rt_log) /\ rt_pc = "raised"

\* every sleep follows a rate-limit error, and a call that is not ended can go on
RetryEnds ==
  /\ \A a \in 1..Len(rt_log) :
       rt_log[a].ev = "sleep" => a > 1 /\ rt_log[a - 1].outcome = "rate_limit"
  /\ \A a \in 1..Len(rt_log) : rt_log[a].attempt \in 0..(rt_cfg.max_retries - 1)
  /\ (rt_pc \in {"start", "call", "fallback", "parse"}) => ENABLED NextRetry
  /\ rt_pc \in {"idle", "start", "call", "fallback", "parse", "returned", "raised"}
  /\ (rt_pc = "returned") => rt_log[Len(rt_log)] = Attempted("call", rt_attempt, "returns")

C26_FallbackReached ==
  /\ rt_pc = "returned" /\ rt_cfg.max_retries = 1 /\ Len(ModelCalls) = 2
\* ------------------------------------------------------------------------
\* C27: the cooldown and the last page
\* ------------------------------------------------------------------------
CooldownSleeps ==
  {a \in 1..Len(ing_trace) : ing_trace[a].ev = "sleep" /\ ing_trace[a].phase = "cooldown"}

\* C27: in a run that returned, every cooldown sleep is followed by the extraction
\* of a further page: nothing is slept after the last page of the document.
C27_CooldownBeforeFurtherPage ==
  Returned =>
    \A a \in CooldownSleeps :
      \E b \in (a + 1)..Len(ing_trace) :
        ing_trace[b].ev = "extract" /\ ing_trace[b].page > ing_trace[a].page

\* a cooldown between two pages does precede the extraction of the next page
C27_CooldownBetweenPages ==
  /\ Returned /\ Len(PageSteps) = 2
  /\ PageSteps[1].outcome = "rate_limit" /\ PageSteps[2].outcome = "facts"
  /\ CooldownSleeps # {}
  /\ C27_CooldownBeforeFurtherPage

\* the last page of the document is rate limited and the cooldown is slept before
\* the summary
C27_CooldownAfterLastPage ==
  /\ Returned /\ Len(PageSteps) >= 1
  /\ PageSteps[Len(PageSteps)].outcome = "rate_limit"
  /\ \E a \in CooldownSleeps :
       /\ ing_trace[a].page = PageSteps[Len(PageSteps)].page
       /\ \A b \in (a + 1)..Len(ing_trace) : ing_trace[b].ev # "extract"
\* ------------------------------------------------------------------------
\* C28: the empty answer
\* ------------------------------------------------------------------------
\* C28: an answer of verify_and_answer is never the empty string.
C28_AnswerNotEmpty == Answered => Len(q_result.answer) > 0

\* the document holds only the unit without value and without label, the question
\* names nothing of it, and the unit is returned as the answer ""
C28_EmptyAnswerReached ==
  /\ Answered /\ q_result.answer = << >>
  /\ Len(doc_units) = 1 /\ doc_bijections = << >> /\ doc_grids = << >>
  /\ doc_units[1].label = JNull /\ doc_units[1].value = JStr(<< >>)
  /\ q_result.source_id = doc_units[1].id /\ q_result.source_type = "unit"

\* the same question over a document without that unit is refused
C28_RefusedWithout ==
  /\ Refused /\ Len(doc_units) = 1 /\ doc_bijections = << >> /\ doc_grids = << >>
  /\ doc_units[1].label = JNull /\ doc_units[1].value # JStr(<< >>)
\* ------------------------------------------------------------------------
\* C29: the order of the facts
\* ------------------------------------------------------------------------
\* the lists holding the elements of s in every order
Reordered(s) ==
  { [i \in 1..Len(s) |-> s[p[i]]] :
      p \in {f \in [1..Len(s) -> 1..Len(s)] : \A i, j \in 1..Len(s) : i # j => f[i] # f[j]} }

\* C29: the result of verify_and_answer is the same for every order of the units,
\* of the bijections and of the grids.
C29_OrderIndependent ==
  Asked =>
    \A units \in Reordered(doc_units), bijections \in Reordered(doc_bijections),
       grids \in Reordered(doc_grids) :
      verify_and_answer(q_question, units, bijections, grids) = q_result

\* two units that the question both names: the answer is the one read first
C29_UnitOrderDecides ==
  /\ Answered /\ q_result.source_type = "unit" /\ Len(doc_units) = 2
  /\ q_result.source_id = doc_units[1].id
  /\ LET swapped == verify_and_answer(q_question, <<doc_units[2], doc_units[1]>>,
                                      doc_bijections, doc_grids)
     IN swapped.status = "answer" /\ swapped.source_id = doc_units[2].id
        /\ swapped.answer # q_result.answer

\* two grids holding the asked pin: the answer is taken from the one read first
C29_GridOrderDecides ==
  /\ Answered /\ q_result.source_type = "grid" /\ Len(doc_grids) = 2
  /\ LET swapped == verify_and_answer(q_question, doc_units, doc_bijections,
                                      <<doc_grids[2], doc_grids[1]>>)
     IN swapped.status = "answer" /\ swapped.answer # q_result.answer
\* ------------------------------------------------------------------------
\* C30: the event stream of /ingest/stream
\* ------------------------------------------------------------------------
\* the progress events ingest_document emitted before its summary
Emitted == SelectSeq(ProgressEvents, LAMBDA e : e.phase # "done")
Terminals == {k \in 1..Len(st_delivered) : st_delivered[k].phase \in TerminalPhases}
ThreadFinished == st_terminal # JNull
StreamClosed == st_pc = "closed"
Copied == \E k \in 1..Len(api_calls) : api_calls[k] = Call("copy2", "ok")
Stored == \E a \in 1..Len(ing_trace) : ing_trace[a].ev = "store"

StreamSafety ==
  LET n == Len(st_delivered)
  IN \* the progress events, in the order of their emission
     /\ \A k \in 1..n :
          k \notin Terminals =>
            k <= Len(Emitted) /\ st_delivered[k].msg = Emitted[k]
                              /\ st_delivered[k].phase = Emitted[k].phase
     \* at most one terminal event, and nothing after it
     /\ Cardinality(Terminals) <= 1
     /\ \A k \in Terminals : k = n /\ k = Len(Emitted) + 1
     /\ StreamClosed <=> Terminals # {}
     \* "done" after the store and the copy, with the summary and the filename;
     \* "error" after a failure of the thread
     /\ \A k \in Terminals :
          IF st_delivered[k].phase = "done"
          THEN /\ ing_pc = "returned" /\ Stored /\ Copied
               /\ st_delivered[k].msg = [summary |-> ing_result.summary,
                                         filename |-> "upload.pdf"]
          ELSE ing_pc = "raised" \/ ~Copied

\* C30: the stream delivers the progress events in the order of their emission, then
\* exactly one terminal event ("done" after the store and the copy of the PDF, "error"
\* after a failure of the thread) and nothing after it; once the thread has finished,
\* the stream reaches its terminal event.
C30_Stream == []StreamSafety /\ (ThreadFinished ~> StreamClosed)

\* a document of two pages, one of them failed: five progress events and "done" were
\* delivered, some of them before the thread finished
C30_Witness ==
  /\ StreamClosed /\ Len(st_delivered) = Len(Emitted) + 1 /\ Len(Emitted) >= 5
  /\ st_delivered[Len(st_delivered)].phase = "done"
  /\ pages_failed = 1 /\ Len(ing_pages) = 2

\* the store failed: the stream ends with "error" after the "storing" event
C30_WitnessError ==
  /\ StreamClosed /\ ing_pc = "raised" /\ Len(st_delivered) >= 2
  /\ st_delivered[Len(st_delivered)].phase = "error"
  /\ st_delivered[Len(st_delivered) - 1].phase = "storing"

====
